---- MODULE Spec2Model ----
(***************************************************************************)
(* Model of the KRL schedule analysis tools: the through/transfer finder   *)
(* (src/through.ts, ThroughCommand), the leg loader of the analyzer        *)
(* (src/analyze.ts, AnalyzeCommand), the scraper's bounded-concurrency     *)
(* dispatch (AppOrchestrator.run) and its HTTP client (FetchHttpClient).   *)
(*                                                                         *)
(* Encoding of JavaScript values                                           *)
(*   number | null      <<n>> | <<>>          (Some / None)                *)
(*   text of a numeric CSV column  [kind |-> "num"|"empty"|"text", n |-> i]*)
(*   time string "HH:MM:SS"        <<h, m, s>>, "" is <<>>, a component    *)
(*                                 that is not a number is -1              *)
(*   array index        1-based, 0 where findIndex returns -1              *)
(***************************************************************************)
EXTENDS Integers, Sequences, FiniteSets, TLC

VARIABLES
    args,        \* parsed command line of the through run
    pc,          \* position of main() / ThroughCommand.run()
    stopsPre,    \* rows of <srcPre>/stops.csv
    stopsPost,   \* rows of <srcPost>/stops.csv
    trains,      \* merged train metadata map (train_id -> meta)
    results,     \* ThroughResult[] of findThrough
    pairs,       \* PairResult[] of buildTransferPairs
    pairsBuilt,  \* TRUE once buildTransferPairs has been invoked
    output,      \* what the run printed: kind and rows
    filesRead,   \* files opened so far (both tools)
    apc,         \* position of the analyzer's loadLegs caller
    legsCsv,     \* <dir>/legs.csv : [exists, rows]
    stopsCsv,    \* <dir>/stops.csv: [exists, rows]
    legs,        \* LegOut[] returned by loadLegs
    loadError,   \* message thrown by loadLegs, "" when none
    segRows,     \* segment_stats rows of the single-dir analysis
    auditSummary,   \* audit_summary.json of the audit mode
    outliers,       \* rows of outliers.csv
    continuityRows, \* rows of train_continuity.csv
    cpc,            \* position of the compare mode
    startArg,       \* --start station of the compare mode
    legsA,          \* LegOut[] of directory A
    legsB,          \* LegOut[] of directory B
    trainsA,        \* readTrains of directory A (train_id -> dest)
    trainsB,        \* readTrains of directory B
    segsAByDest,    \* extractSegments(byTrainA, trainsA): dest -> legs
    segsBByDest,    \* extractSegments(byTrainB, trainsB)
    series,         \* SeriesPerDest[] of buildCompareSeries
    spc,            \* position of AppOrchestrator.run
    schedule,       \* trainsSummary with what fetchTrain will answer per train
    nextIndex,      \* nextIndex of mapWithConcurrency
    workerAt,       \* worker -> item index of its outstanding call, -1 when it has none
    invoked,        \* per item: how often fn was called with it
    mapResults,     \* the results array of mapWithConcurrency
    done,           \* the progress counter
    stopsOut,       \* stops.csv as written
    legsOut,        \* legs.csv as written
    hpc,            \* position of FetchHttpClient.getJSON
    retries,        \* the retries option
    attempt,        \* loop variable of getJSON
    timer,          \* TRUE while the timeout timer of the attempt is pending
    requests,       \* outcome of every fetch issued so far, in order
    slept,          \* the back-off delays slept so far, in ms
    answer          \* what getJSON returned or threw

vars == <<args, pc, stopsPre, stopsPost, trains, results, pairs, pairsBuilt,
          output, filesRead, apc, legsCsv, stopsCsv, legs, loadError, segRows,
          auditSummary, outliers, continuityRows, cpc, startArg, legsA, legsB,
          trainsA, trainsB, segsAByDest, segsBByDest, series,
          spc, schedule, nextIndex, workerAt, invoked, mapResults, done,
          stopsOut, legsOut, hpc, retries, attempt, timer, requests, slept, answer>>

throughVars == <<args, pc, stopsPre, stopsPost, trains, results, pairs,
                 pairsBuilt, output>>
auditVars == <<auditSummary, outliers, continuityRows>>

compareVars == <<cpc, startArg, legsA, legsB, trainsA, trainsB, segsAByDest,
                 segsBByDest, series>>

dirVars == <<apc, legsCsv, stopsCsv, legs, loadError, segRows>>

analyzeVars == <<dirVars, auditVars, compareVars>>

scrapeVars == <<spc, schedule, nextIndex, workerAt, invoked, mapResults, done,
                stopsOut, legsOut>>

httpVars == <<hpc, retries, attempt, timer, requests, slept, answer>>

netVars == <<scrapeVars, httpVars>>

----------------------------------------------------------------------------
(* Bounds of the model *)

MaxPreTrains == 2
MaxPostTrains == 2
MaxLegRows == 2
MaxStopRows == 3
MaxAuditRows == 3
MaxRuns == 2
MaxRunLength == 10
MaxCompareRows == 2
MaxOutbound == 4
MaxEquivTrains == 2
MaxTrains == 11
MaxScraped == 3
MaxRetries == 3

----------------------------------------------------------------------------
(* Generic helpers *)

None == <<>>
Some(n) == <<n>>

Range(s) == {s[i] : i \in 1..Len(s)}

\* ascending sequence of a finite set of naturals
SeqOfIndices(S) ==
    [k \in 1..Cardinality(S) |->
        CHOOSE i \in S : Cardinality({j \in S : j < i}) = k - 1]

\* Array.prototype.sort: a stable sort; Less(a, b) iff comparator(a, b) < 0
StableSort(s, Less(_, _)) ==
    LET n == Len(s)
        rank(i) == Cardinality({j \in 1..n :
                       Less(s[j], s[i]) \/ (~Less(s[i], s[j]) /\ j < i)})
    IN  [k \in 1..n |-> s[CHOOSE i \in 1..n : rank(i) = k - 1]]

\* Array.prototype.findIndex, 1-based; 0 when no element matches
FindIndex(s, P(_)) ==
    IF \E i \in 1..Len(s) : P(s[i])
    THEN CHOOSE i \in 1..Len(s) : P(s[i]) /\ \A j \in 1..(i - 1) : ~P(s[j])
    ELSE 0

\* all sequences over S of length lo..hi
SeqsOf(S, lo, hi) == UNION {[1..n -> S] : n \in lo..hi}

----------------------------------------------------------------------------
(* CSV text and JavaScript conversions *)

NumFld(i) == [kind |-> "num", n |-> i]
EmptyFld == [kind |-> "empty", n |-> 0]
TextFld == [kind |-> "text", n |-> 0]

\* Number(v) of a CSV cell: "" is 0, non-numeric text is NaN (None)
Number(v) ==
    IF v.kind = "num" THEN Some(v.n)
    ELSE IF v.kind = "empty" THEN Some(0)
    ELSE None

\* Number(v) || alt : NaN and 0 are falsy
NumberOr(v, alt) ==
    IF Number(v) = None \/ Number(v) = Some(0) THEN alt ELSE Number(v)[1]

toNum_zeroIsNull(v) ==
    IF Number(v) = None \/ Number(v) = Some(0) THEN None ELSE Number(v)

\* v == null ? null : Number.isFinite(Number(v)) ? Number(v) : null; a CSV cell
\* is never null (readCsv stores "" for a missing column)
toNum(v) == Number(v)

MinutesPerDay == 24 * 60

hmsToMin(hms) ==
    IF hms = <<>> THEN None
    ELSE IF Len(hms) < 2 \/ hms[1] < 0 \/ hms[2] < 0 THEN None
    ELSE LET s == IF Len(hms) >= 3 THEN hms[3] ELSE 0
         IN  Some(hms[1] * 60 + hms[2] + (IF s < 0 THEN 0 ELSE s \div 60))

\* a.localeCompare(b) < 0 for zero-padded time strings
RECURSIVE TimeLess(_, _)
TimeLess(a, b) ==
    IF b = <<>> THEN FALSE
    ELSE IF a = <<>> THEN TRUE
    ELSE IF Head(a) # Head(b) THEN Head(a) < Head(b)
    ELSE TimeLess(Tail(a), Tail(b))

Lower ==
    [n \in {"PALMERAH", "Palmerah", "palmerah"} |-> "palmerah"] @@
    [n \in {"TANAH ABANG", "Tanah Abang", "tanah abang"} |-> "tanah abang"] @@
    [n \in {"SUDIRMAN", "Sudirman", "sudirman"} |-> "sudirman"] @@
    [n \in {"KEBAYORAN", "Kebayoran", "kebayoran"} |-> "kebayoran"] @@
    [n \in {""} |-> ""]

toLowerCase(s) == Lower[s]

Hub == "tanah abang"

----------------------------------------------------------------------------
(* Train metadata (trains.csv) *)

\* what display code sees when a train has no metadata entry
NoMeta == [ka_name |-> "", route_name |-> ""]

MetaOf(trainMap, tid) ==
    IF tid \in DOMAIN trainMap
    THEN [ka_name |-> trainMap[tid].ka_name, route_name |-> trainMap[tid].route_name]
    ELSE NoMeta

----------------------------------------------------------------------------
(* Grouping of stop rows by train, as the Map insertion order gives it *)

RECURSIVE Concat(_)
Concat(ss) == IF ss = <<>> THEN <<>> ELSE Head(ss) \o Concat(Tail(ss))

\* keys of byTrain in insertion order: train ids by first occurrence
TrainOrder(rows) ==
    LET firsts == {i \in 1..Len(rows) :
                      \A j \in 1..(i - 1) : rows[j].train_id # rows[i].train_id}
        idx == SeqOfIndices(firsts)
    IN  [k \in 1..Len(idx) |-> rows[idx[k]].train_id]

RowsOf(rows, tid) == SelectSeq(rows, LAMBDA r : r.train_id = tid)

StopIndexLess(a, b) == NumberOr(a.stop_index, 0) < NumberOr(b.stop_index, 0)

SortStops(arr) == StableSort(arr, StopIndexLess)

StationIndex(arr, name) ==
    FindIndex(arr, LAMBDA r : toLowerCase(r.station_name) = toLowerCase(name))

----------------------------------------------------------------------------
(* findThrough *)

Continues_destAnywhere(destIdx, taIdx) == destIdx > 0

\* const continues = destIdx > taIdx
Continues(destIdx, taIdx) == destIdx > taIdx

\* viaIdx >= 0, taIdx >= 0 and viaIdx < taIdx
ViaBeforeHub(viaIdx, taIdx) == viaIdx > 0 /\ taIdx > 0 /\ viaIdx < taIdx

ViaIndex_position(arr, viaIdx) == viaIdx - 1

\* Number(arr[viaIdx]?.["stop_index"]) || viaIdx, viaIdx counted from 0
ViaIndex(arr, viaIdx) == NumberOr(arr[viaIdx].stop_index, viaIdx - 1)

ThroughOfTrain_needsMeta(tid, arr0, trainMap, via, dest) ==
    LET arr == SortStops(arr0)
        viaIdx == StationIndex(arr, via)
        taIdx == StationIndex(arr, Hub)
        destIdx == StationIndex(arr, dest)
    IN  IF tid \notin DOMAIN trainMap THEN <<>>
        ELSE IF ~ViaBeforeHub(viaIdx, taIdx) THEN <<>>
        ELSE IF ~Continues(destIdx, taIdx) THEN <<>>
        ELSE << [train_id |-> tid,
                 ka_name |-> MetaOf(trainMap, tid).ka_name,
                 route_name |-> MetaOf(trainMap, tid).route_name,
                 depart_via_time |-> arr[viaIdx].time_est,
                 via_index |-> ViaIndex(arr, viaIdx),
                 continues_to_dest |-> TRUE] >>

\* one iteration of the loop over byTrain: the result of a train, if any
ThroughOfTrain(tid, arr0, trainMap, via, dest) ==
    LET arr == SortStops(arr0)
        viaIdx == StationIndex(arr, via)
        taIdx == StationIndex(arr, Hub)
        destIdx == StationIndex(arr, dest)
    IN  IF ~ViaBeforeHub(viaIdx, taIdx) THEN <<>>
        ELSE IF ~Continues(destIdx, taIdx) THEN <<>>
        ELSE << [train_id |-> tid,
                 ka_name |-> MetaOf(trainMap, tid).ka_name,
                 route_name |-> MetaOf(trainMap, tid).route_name,
                 depart_via_time |-> arr[viaIdx].time_est,
                 via_index |-> ViaIndex(arr, viaIdx),
                 continues_to_dest |-> TRUE] >>

DepartViaLess_reversed(a, b) == TimeLess(b.depart_via_time, a.depart_via_time)

\* String(a.depart_via_time).localeCompare(String(b.depart_via_time)) < 0
DepartViaLess(a, b) == TimeLess(a.depart_via_time, b.depart_via_time)

findThrough(stops, trainMap, via, dest) ==
    LET order == TrainOrder(stops)
        res == Concat([k \in 1..Len(order) |->
                   ThroughOfTrain(order[k], RowsOf(stops, order[k]), trainMap, via, dest)])
    IN  StableSort(res, DepartViaLess)

----------------------------------------------------------------------------
(* buildTransferPairs *)

\* Number(row.time_est_min) || hmsToMin(row.time_est)
MinuteOf(row) ==
    IF Number(row.time_est_min) = None \/ Number(row.time_est_min) = Some(0)
    THEN hmsToMin(row.time_est)
    ELSE Number(row.time_est_min)

\* inbound leg via -> hub of one train of the pre-hub dataset (0 or 1 leg)
LegAOfTrain(tid, arr0, trainMap, via) ==
    LET arr == SortStops(arr0)
        idxVia == StationIndex(arr, via)
        idxTA == StationIndex(arr, Hub)
    IN  IF idxVia > 0 /\ idxTA > idxVia
        THEN LET departVia == arr[idxVia].time_est
                 arriveTA == arr[idxTA].time_est
                 departViaMin == MinuteOf(arr[idxVia])
                 arriveTAMin == MinuteOf(arr[idxTA])
             IN  IF departVia # <<>> /\ arriveTA # <<>>
                    /\ departViaMin # None /\ arriveTAMin # None
                 THEN << [trainId |-> tid, departVia |-> departVia,
                          arriveTA |-> arriveTA,
                          departViaMin |-> departViaMin[1],
                          arriveTAMin |-> arriveTAMin[1],
                          meta |-> MetaOf(trainMap, tid)] >>
                 ELSE <<>>
        ELSE <<>>

\* outbound leg hub -> dest of one train of the post-hub dataset (0 or 1 leg)
LegBOfTrain(tid, arr0, trainMap, dest) ==
    LET arr == SortStops(arr0)
        idxTA == StationIndex(arr, Hub)
        idxDest == StationIndex(arr, dest)
    IN  IF idxTA > 0 /\ idxDest > idxTA
        THEN LET departTA == arr[idxTA].time_est
                 arriveDest == arr[idxDest].time_est
                 departTAMin == MinuteOf(arr[idxTA])
                 arriveDestMin == MinuteOf(arr[idxDest])
             IN  IF departTA # <<>> /\ departTAMin # None
                 THEN << [trainId |-> tid, departTA |-> departTA,
                          arriveDest |-> arriveDest,
                          departTAMin |-> departTAMin[1],
                          arriveDestMin |-> arriveDestMin,
                          meta |-> MetaOf(trainMap, tid)] >>
                 ELSE <<>>
        ELSE <<>>

LegAs(pre, trainMap, via) ==
    LET order == TrainOrder(pre)
    IN  Concat([k \in 1..Len(order) |->
                  LegAOfTrain(order[k], RowsOf(pre, order[k]), trainMap, via)])

DepartTALess(a, b) == a.departTAMin < b.departTAMin

\* legBs after legBs.sort((a, b) => a.departTAMin - b.departTAMin)
LegBs(post, trainMap, dest) ==
    LET order == TrainOrder(post)
        unsorted == Concat([k \in 1..Len(order) |->
                      LegBOfTrain(order[k], RowsOf(post, order[k]), trainMap, dest)])
    IN  StableSort(unsorted, DepartTALess)

waitDiffMin_noWrap(arrive, depart) == depart - arrive

waitDiffMin(arrive, depart) ==
    LET d == depart - arrive
    IN  IF d < 0 THEN d + MinutesPerDay ELSE d

\* the binary search loop; lo and hi are the 0-based bounds of the code
RECURSIVE LowerBound(_, _, _, _)
LowerBound(legBs, arrive, lo, hi) ==
    IF lo < hi
    THEN LET mid == (lo + hi) \div 2
         IN  IF legBs[mid + 1].departTAMin < arrive
             THEN LowerBound(legBs, arrive, mid + 1, hi)
             ELSE LowerBound(legBs, arrive, lo, mid)
    ELSE lo

SearchFrom_upperBound(legBs, arrive) ==
    Cardinality({i \in 1..Len(legBs) : legBs[i].departTAMin <= arrive})

SearchFrom(legBs, arrive) == LowerBound(legBs, arrive, 0, Len(legBs))

\* addCand: keep a defined element not yet among the candidates
AddCand(cands, legBs, i0) ==
    IF i0 + 1 \in 1..Len(legBs) /\ (i0 + 1) \notin Range(cands)
    THEN Append(cands, i0 + 1)
    ELSE cands

Candidates_noWrap(legBs, lo) ==
    AddCand(AddCand(<<>>, legBs, lo), legBs, lo + 1)

\* candidate legs as 1-based positions of legBs: legBs[lo], legBs[lo+1], legBs[0]
Candidates(legBs, lo) ==
    AddCand(AddCand(AddCand(<<>>, legBs, lo), legBs, lo + 1), legBs, 0)

WithinMaxWait_ignored(wait, maxWaitMin) == TRUE

\* not (maxWaitMin != null && wait > maxWaitMin)
WithinMaxWait(wait, maxWaitMin) ==
    ~(maxWaitMin # None /\ wait > maxWaitMin[1])

RECURSIVE BestOf_lastFit(_, _, _, _, _)
BestOf_lastFit(cands, legBs, arrive, maxWaitMin, best) ==
    IF cands = <<>> THEN best
    ELSE LET b == Head(cands)
             wait == waitDiffMin(arrive, legBs[b].departTAMin)
             next == IF ~WithinMaxWait(wait, maxWaitMin) THEN best ELSE <<b, wait>>
         IN  BestOf_lastFit(Tail(cands), legBs, arrive, maxWaitMin, next)

\* the loop over the candidates: best is None or <<position, wait>>
RECURSIVE BestOf(_, _, _, _, _)
BestOf(cands, legBs, arrive, maxWaitMin, best) ==
    IF cands = <<>> THEN best
    ELSE LET b == Head(cands)
             wait == waitDiffMin(arrive, legBs[b].departTAMin)
             next == IF ~WithinMaxWait(wait, maxWaitMin) THEN best
                     ELSE IF best = None \/ wait < best[2] THEN <<b, wait>>
                     ELSE best
         IN  BestOf(Tail(cands), legBs, arrive, maxWaitMin, next)

PairOfLeg(a, legBs, maxWaitMin) ==
    LET lo == SearchFrom(legBs, a.arriveTAMin)
        best == BestOf(Candidates(legBs, lo), legBs, a.arriveTAMin, maxWaitMin, None)
    IN  IF best = None THEN <<>>
        ELSE << [from_train_id |-> a.trainId,
                 to_train_id |-> legBs[best[1]].trainId,
                 depart_via_time |-> a.departVia,
                 arrive_ta_time |-> a.arriveTA,
                 depart_ta_time |-> legBs[best[1]].departTA,
                 arrive_dest_time |-> legBs[best[1]].arriveDest,
                 wait_min |-> best[2],
                 meta_from |-> a.meta,
                 meta_to |-> legBs[best[1]].meta] >>

\* x.wait_min - y.wait_min || localeCompare(depart_via_time) < 0
PairLess(x, y) ==
    \/ x.wait_min < y.wait_min
    \/ x.wait_min = y.wait_min /\ TimeLess(x.depart_via_time, y.depart_via_time)

buildTransferPairs(pre, post, trainMap, via, dest, maxWaitMin) ==
    LET legAs == LegAs(pre, trainMap, via)
        legBs == LegBs(post, trainMap, dest)
        found == Concat([k \in 1..Len(legAs) |-> PairOfLeg(legAs[k], legBs, maxWaitMin)])
    IN  StableSort(found, PairLess)

----------------------------------------------------------------------------
(* ThroughCommand: the class copy of findThrough and buildTransferPairs,   *)
(* written loop by loop as the class has it                                *)

Cmd_hmsToMin(hms) ==
    IF hms = <<>> THEN None
    ELSE LET h == IF Len(hms) >= 1 THEN hms[1] ELSE -1
             m == IF Len(hms) >= 2 THEN hms[2] ELSE -1
             s == IF Len(hms) >= 3 THEN hms[3] ELSE 0
         IN  IF h < 0 \/ m < 0 THEN None
             ELSE Some(h * 60 + m + (IF s < 0 THEN 0 ELSE s \div 60))

\* for (const r of rows) { if (!m.has(tid)) m.set(tid, []); m.get(tid).push(r) }
RECURSIVE Cmd_byTrain(_, _)
Cmd_byTrain(rows, m) ==
    IF rows = <<>> THEN m
    ELSE LET r == Head(rows)
             at == {k \in 1..Len(m) : m[k].tid = r.train_id}
         IN  Cmd_byTrain(Tail(rows),
                 IF at = {} THEN Append(m, [tid |-> r.train_id, arr |-> <<r>>])
                 ELSE [k \in 1..Len(m) |->
                          IF k \in at THEN [m[k] EXCEPT !.arr = Append(@, r)] ELSE m[k]])

Cmd_sortStops(arr) ==
    StableSort(arr, LAMBDA a, b : NumberOr(a.stop_index, 0) < NumberOr(b.stop_index, 0))

\* 0-based index of the first row at the station, -1 when there is none
Cmd_indexOf(arr, name) ==
    LET at == {i \in 1..Len(arr) : toLowerCase(arr[i].station_name) = toLowerCase(name)}
    IN  IF at = {} THEN -1 ELSE (CHOOSE i \in at : \A j \in at : i <= j) - 1

\* the loop body of findThrough with its four continue statements
Cmd_throughRow(g, trainMap, via, dest) ==
    LET arr == Cmd_sortStops(g.arr)
        viaIdx == Cmd_indexOf(arr, via)
        taIdx == Cmd_indexOf(arr, "tanah abang")
        destIdx == Cmd_indexOf(arr, dest)
    IN  IF viaIdx < 0 THEN <<>>
        ELSE IF taIdx < 0 THEN <<>>
        ELSE IF ~(viaIdx < taIdx) THEN <<>>
        ELSE IF ~(destIdx > taIdx) THEN <<>>
        ELSE << [train_id |-> g.tid,
                 ka_name |-> IF g.tid \in DOMAIN trainMap THEN trainMap[g.tid].ka_name ELSE "",
                 route_name |-> IF g.tid \in DOMAIN trainMap THEN trainMap[g.tid].route_name ELSE "",
                 depart_via_time |-> arr[viaIdx + 1].time_est,
                 via_index |-> NumberOr(arr[viaIdx + 1].stop_index, viaIdx),
                 continues_to_dest |-> TRUE] >>

Cmd_findThrough(stops, trainMap, via, dest) ==
    LET byTrain == Cmd_byTrain(stops, <<>>)
        res == Concat([k \in 1..Len(byTrain) |-> Cmd_throughRow(byTrain[k], trainMap, via, dest)])
    IN  StableSort(res, LAMBDA a, b : TimeLess(a.depart_via_time, b.depart_via_time))

\* Number(row['time_est_min']) || this.hmsToMin(row['time_est'])!
Cmd_minuteOf(row) ==
    LET n == Number(row.time_est_min)
    IN  IF n = None \/ n = Some(0) THEN Cmd_hmsToMin(row.time_est) ELSE n

Cmd_meta(trainMap, tid) ==
    IF tid \in DOMAIN trainMap
    THEN [ka_name |-> trainMap[tid].ka_name, route_name |-> trainMap[tid].route_name]
    ELSE NoMeta

Cmd_legA(g, trainMap, via) ==
    LET arr == Cmd_sortStops(g.arr)
        idxVia == Cmd_indexOf(arr, via)
        idxTA == Cmd_indexOf(arr, "tanah abang")
    IN  IF ~(idxVia >= 0 /\ idxTA > idxVia) THEN <<>>
        ELSE LET via_ == arr[idxVia + 1]
                 ta == arr[idxTA + 1]
             IN  IF via_.time_est # <<>> /\ ta.time_est # <<>>
                    /\ Cmd_minuteOf(via_) # None /\ Cmd_minuteOf(ta) # None
                 THEN << [trainId |-> g.tid, departVia |-> via_.time_est,
                          arriveTA |-> ta.time_est,
                          departViaMin |-> Cmd_minuteOf(via_)[1],
                          arriveTAMin |-> Cmd_minuteOf(ta)[1],
                          meta |-> Cmd_meta(trainMap, g.tid)] >>
                 ELSE <<>>

Cmd_legB(g, trainMap, dest) ==
    LET arr == Cmd_sortStops(g.arr)
        idxTA == Cmd_indexOf(arr, "tanah abang")
        idxDest == Cmd_indexOf(arr, dest)
    IN  IF ~(idxTA >= 0 /\ idxDest > idxTA) THEN <<>>
        ELSE LET ta == arr[idxTA + 1]
                 to == arr[idxDest + 1]
             IN  IF ta.time_est # <<>> /\ Cmd_minuteOf(ta) # None
                 THEN << [trainId |-> g.tid, departTA |-> ta.time_est,
                          arriveDest |-> to.time_est,
                          departTAMin |-> Cmd_minuteOf(ta)[1],
                          arriveDestMin |-> Cmd_minuteOf(to),
                          meta |-> Cmd_meta(trainMap, g.tid)] >>
                 ELSE <<>>

Cmd_waitDiffMin_signed(arrive, depart) ==
    LET d == depart - arrive
    IN  IF d < 0 THEN 0 - d ELSE d

\* let d = depart - arrive; if (d < 0) d += 24 * 60
Cmd_waitDiffMin(arrive, depart) ==
    LET d == depart - arrive
    IN  IF d < 0 THEN d + 24 * 60 ELSE d

\* while (lo < hi) { mid = (lo + hi) >> 1; ... }
RECURSIVE Cmd_search(_, _, _, _)
Cmd_search(legBs, arrive, lo, hi) ==
    IF ~(lo < hi) THEN lo
    ELSE LET mid == (lo + hi) \div 2
         IN  IF legBs[mid + 1].departTAMin < arrive
             THEN Cmd_search(legBs, arrive, mid + 1, hi)
             ELSE Cmd_search(legBs, arrive, lo, mid)

\* addCand(legBs[lo]); addCand(legBs[lo + 1]); addCand(legBs[0]), as 0-based
\* positions of defined elements without repetition
Cmd_candidates(legBs, lo) ==
    LET n == Len(legBs)
        c1 == IF lo < n THEN <<lo>> ELSE <<>>
        c2 == IF lo + 1 < n THEN Append(c1, lo + 1) ELSE c1
    IN  IF 0 < n /\ 0 \notin Range(c2) THEN Append(c2, 0) ELSE c2

\* for (const b of candidates) { ... if (!best || wait < best.wait) best = ... }
RECURSIVE Cmd_best(_, _, _, _, _)
Cmd_best(cands, legBs, arrive, maxWaitMin, best) ==
    IF cands = <<>> THEN best
    ELSE LET b == legBs[Head(cands) + 1]
             wait == Cmd_waitDiffMin(arrive, b.departTAMin)
         IN  Cmd_best(Tail(cands), legBs, arrive, maxWaitMin,
                 IF maxWaitMin # None /\ wait > maxWaitMin[1] THEN best
                 ELSE IF best = None \/ wait < best[1].wait THEN Some([b |-> b, wait |-> wait])
                 ELSE best)

Cmd_pair(a, legBs, maxWaitMin) ==
    LET lo == Cmd_search(legBs, a.arriveTAMin, 0, Len(legBs))
        best == Cmd_best(Cmd_candidates(legBs, lo), legBs, a.arriveTAMin, maxWaitMin, None)
    IN  IF best = None THEN <<>>
        ELSE << [from_train_id |-> a.trainId,
                 to_train_id |-> best[1].b.trainId,
                 depart_via_time |-> a.departVia,
                 arrive_ta_time |-> a.arriveTA,
                 depart_ta_time |-> best[1].b.departTA,
                 arrive_dest_time |-> best[1].b.arriveDest,
                 wait_min |-> best[1].wait,
                 meta_from |-> a.meta,
                 meta_to |-> best[1].b.meta] >>

Cmd_buildTransferPairs(stopsPre_, stopsPost_, trainMap, via, dest, maxWaitMin) ==
    LET byTrainPre == Cmd_byTrain(stopsPre_, <<>>)
        byTrainPost == Cmd_byTrain(stopsPost_, <<>>)
        legAs == Concat([k \in 1..Len(byTrainPre) |-> Cmd_legA(byTrainPre[k], trainMap, via)])
        legBs == StableSort(
                   Concat([k \in 1..Len(byTrainPost) |-> Cmd_legB(byTrainPost[k], trainMap, dest)]),
                   LAMBDA a, b : a.departTAMin < b.departTAMin)
        found == Concat([k \in 1..Len(legAs) |-> Cmd_pair(legAs[k], legBs, maxWaitMin)])
    IN  StableSort(found,
            LAMBDA x, y : \/ x.wait_min < y.wait_min
                          \/ x.wait_min = y.wait_min
                             /\ TimeLess(x.depart_via_time, y.depart_via_time))

----------------------------------------------------------------------------
(* Inputs of the through run: command lines and stops.csv contents *)

AbsentArg == [kind |-> "absent", n |-> 0]

Via == "Palmerah"
Dest == "Sudirman"

ArgsOf(a, b, pre, post, order, desc, limit, maxwait) ==
    [aDir |-> a, bDir |-> b, preDir |-> pre, postDir |-> post,
     via |-> Via, dest |-> Dest, order |-> order, desc |-> desc,
     limit |-> limit, maxwait |-> maxwait]

\* (time_est, time_est_min) of the sample stops; 07:45 has an unparsable
\* minute column and 00:00 a zero one, so both fall back to hmsToMin
TimeSamples ==
    << [time_est |-> <<7, 10, 0>>,  time_est_min |-> NumFld(430)],
       [time_est |-> <<7, 20, 0>>,  time_est_min |-> NumFld(440)],
       [time_est |-> <<7, 45, 0>>,  time_est_min |-> TextFld],
       [time_est |-> <<23, 50, 0>>, time_est_min |-> NumFld(1430)],
       [time_est |-> <<0, 10, 0>>,  time_est_min |-> NumFld(10)],
       [time_est |-> <<0, 0, 30>>,  time_est_min |-> NumFld(0)],
       [time_est |-> <<>>,          time_est_min |-> EmptyFld] >>

SampleAt(k) == TimeSamples[((k - 1) % Len(TimeSamples)) + 1]

\* rows of one train: stop j of the route is stop_index first + j - 1 and
\* carries the time sample start + j - 1
TrainRows(tid, route, start, first) ==
    [j \in 1..Len(route) |->
        [train_id |-> tid,
         stop_index |-> NumFld(first + j - 1),
         station_name |-> route[j],
         time_est |-> SampleAt(start + j - 1).time_est,
         time_est_min |-> SampleAt(start + j - 1).time_est_min]]

Reverse(s) == [i \in 1..Len(s) |-> s[Len(s) + 1 - i]]

V == "PALMERAH"
H == "TANAH ABANG"
D == "SUDIRMAN"

\* every order of two or three of the stations via, hub, destination
Routes ==
    {r \in SeqsOf({V, H, D}, 2, 3) : \A i, j \in 1..Len(r) : i # j => r[i] # r[j]}

PreIds == <<"101", "102", "103">>
PostIds == <<"201", "202", "203">>

FullMeta ==
    [t \in Range(PreIds) \cup Range(PostIds) |->
        [dest |-> "SUDIRMAN", ka_name |-> "COMMUTER LINE", route_name |-> "RANGKASBITUNG"]]
EmptyMeta == [t \in {} |-> NoMeta]

\* datasets of the transfer family: inbound trains via -> hub and outbound
\* trains hub -> dest, each with a free time sample
TimedFile(ids, route, n, starts) ==
    Concat([i \in 1..n |-> TrainRows(ids[i], route, starts[i], 0)])

TimedFiles(ids, route, max) ==
    UNION {{TimedFile(ids, route, n, st) : st \in [1..n -> 1..Len(TimeSamples)]} :
              n \in 0..max}

TimedData ==
    {[pre |-> p, post |-> q, trains |-> FullMeta] :
        p \in TimedFiles(PreIds, <<V, H>>, MaxPreTrains),
        q \in TimedFiles(PostIds, <<H, D>>, MaxPostTrains)}

\* datasets of the route family: pre-hub trains with any route, the rows of
\* the file in travel order or the whole file reversed, against a menu of
\* post-hub files
RoutedFile(ids, n, rs, rev) ==
    LET rows == Concat([i \in 1..n |-> TrainRows(ids[i], rs[i], 1, 0)])
    IN  IF rev THEN Reverse(rows) ELSE rows

RoutedFiles(ids, max) ==
    UNION {{RoutedFile(ids, n, rs, rev) : rs \in [1..n -> Routes], rev \in BOOLEAN} :
              n \in 0..max}

PostMenu ==
    { <<>>,
      TrainRows("201", <<H, D>>, 3, 0),
      TrainRows("201", <<V, H, D>>, 2, 0),
      TrainRows("101", <<D>>, 3, 0),
      TrainRows("101", <<H, D>>, 3, 0) }

RoutedData ==
    {[pre |-> p, post |-> q, trains |-> m] :
        p \in RoutedFiles(PreIds, MaxPreTrains), q \in PostMenu,
        m \in {EmptyMeta, FullMeta}}

\* train 301 stops at Palmerah 07:00, Tanah Abang 07:20 and Sudirman 07:40
ScenarioStops ==
    << [train_id |-> "301", stop_index |-> NumFld(1), station_name |-> "Palmerah",
        time_est |-> <<7, 0, 0>>, time_est_min |-> NumFld(420)],
       [train_id |-> "301", stop_index |-> NumFld(2), station_name |-> "Tanah Abang",
        time_est |-> <<7, 20, 0>>, time_est_min |-> NumFld(440)],
       [train_id |-> "301", stop_index |-> NumFld(3), station_name |-> "Sudirman",
        time_est |-> <<7, 40, 0>>, time_est_min |-> NumFld(460)] >>

\* a few fixed datasets shared by both families
SampleData ==
    { [pre |-> TrainRows("101", <<V, H, D>>, 1, 0),
       post |-> TrainRows("201", <<H, D>>, 3, 0), trains |-> FullMeta],
      [pre |-> TrainRows("101", <<V, H>>, 1, 0),
       post |-> TrainRows("201", <<H, D>>, 3, 0), trains |-> EmptyMeta],
      [pre |-> TrainRows("101", <<V, H, D>>, 2, 0) \o TrainRows("102", <<V, H, D>>, 1, 0),
       post |-> <<>>, trains |-> FullMeta],
      [pre |-> ScenarioStops, post |-> <<>>, trains |-> EmptyMeta] }

----------------------------------------------------------------------------
(* main() of through.ts / ThroughCommand.run *)

srcPre(a) == IF a.preDir # "" THEN a.preDir ELSE a.aDir
srcPost(a) == IF a.postDir # "" THEN a.postDir ELSE a.bDir

DirsMissing_noneGiven(a) ==
    (a.aDir = "" /\ a.bDir = "") /\ (a.preDir = "" /\ a.postDir = "")

\* (!aDir || !bDir) && (!preDir || !postDir)
DirsMissing(a) ==
    (a.aDir = "" \/ a.bDir = "") /\ (a.preDir = "" \/ a.postDir = "")

\* maxWaitArg is a non-empty string ? Number(maxWaitArg) : null, kept if finite
MaxWaitMin(a) ==
    IF a.maxwait.kind \in {"num", "text"} THEN Number(a.maxwait) ELSE None

\* limitNum > 0 ? rows.slice(0, limitNum) : rows
Limit(rows, limitNum) ==
    IF limitNum > 0 /\ limitNum < Len(rows) THEN SubSeq(rows, 1, limitNum) ELSE rows

DepartViaGreater(a, b) == TimeLess(b.depart_via_time, a.depart_via_time)
WaitLess(x, y) == x.wait_min < y.wait_min
WaitGreater(x, y) == x.wait_min > y.wait_min

\* results.sort / pairs.sort by depart_via_time when --order=depart
OrderByDepart(rows, a) ==
    IF a.order # "depart" THEN rows
    ELSE IF a.desc THEN StableSort(rows, DepartViaGreater)
    ELSE StableSort(rows, DepartViaLess)

OrderPairs_ascending(rows, a) ==
    IF a.order = "depart" THEN StableSort(rows, DepartViaLess)
    ELSE IF a.order = "wait" THEN StableSort(rows, WaitLess)
    ELSE rows

\* pairs.sort by depart_via_time or by wait_min, times -1 when --desc
OrderPairs(rows, a) ==
    IF a.order = "depart" THEN OrderByDepart(rows, a)
    ELSE IF a.order = "wait"
         THEN IF a.desc THEN StableSort(rows, WaitGreater) ELSE StableSort(rows, WaitLess)
    ELSE rows

NeedsTransfer_always(res) == TRUE

\* if (results.length === 0)
NeedsTransfer(res) == Len(res) = 0

\* usage(); process.exit(2)  /  throw new Error("through: butuh kombinasi ...")
ValidateFail ==
    /\ pc = "start"
    /\ DirsMissing(args)
    /\ pc' = "exit2"
    /\ output' = [kind |-> "usage", rows |-> <<>>]
    /\ UNCHANGED <<args, stopsPre, stopsPost, trains, results, pairs, pairsBuilt,
                   filesRead>>
    /\ UNCHANGED <<analyzeVars, netVars>>

ValidateOk ==
    /\ pc = "start"
    /\ ~DirsMissing(args)
    /\ pc' = "load"
    /\ UNCHANGED <<args, stopsPre, stopsPost, trains, results, pairs, pairsBuilt,
                   output, filesRead>>
    /\ UNCHANGED <<analyzeVars, netVars>>

\* Promise.all([loadStops(srcPre), loadStops(srcPost), loadTrains(..), loadTrains(..)])
LoadStops(Data) ==
    /\ pc = "load"
    /\ \E d \in Data :
         /\ stopsPre' = d.pre
         /\ stopsPost' = d.post
         /\ trains' = d.trains
    /\ filesRead' = filesRead \cup
                      {<<srcPre(args), "stops.csv">>, <<srcPost(args), "stops.csv">>,
                       <<srcPre(args), "trains.csv">>, <<srcPost(args), "trains.csv">>}
    /\ pc' = "find"
    /\ UNCHANGED <<args, results, pairs, pairsBuilt, output>>
    /\ UNCHANGED <<analyzeVars, netVars>>

\* readCsv of a missing stops.csv rejects; main().catch prints and exits 1
LoadStopsFail ==
    /\ pc = "load"
    /\ \E dir \in {srcPre(args), srcPost(args)} :
         filesRead' = filesRead \cup {<<dir, "stops.csv">>}
    /\ pc' = "exit1"
    /\ output' = [kind |-> "error", rows |-> <<>>]
    /\ UNCHANGED <<args, stopsPre, stopsPost, trains, results, pairs, pairsBuilt>>
    /\ UNCHANGED <<analyzeVars, netVars>>

\* findThrough on the combined stops, then the --order=depart sort
FindThroughStep ==
    /\ pc = "find"
    /\ LET res == OrderByDepart(findThrough(stopsPre \o stopsPost, trains,
                                            args.via, args.dest), args)
       IN  /\ results' = res
           /\ pc' = IF NeedsTransfer(res) THEN "transfer" ELSE "report"
    /\ UNCHANGED <<args, stopsPre, stopsPost, trains, pairs, pairsBuilt, output,
                   filesRead>>
    /\ UNCHANGED <<analyzeVars, netVars>>

\* the results.length === 0 branch: build, order and print the pairs, exit 0
BuildPairsStep ==
    /\ pc = "transfer"
    /\ LET ps == OrderPairs(buildTransferPairs(stopsPre, stopsPost, trains,
                              args.via, args.dest, MaxWaitMin(args)), args)
       IN  /\ pairs' = ps
           /\ output' = IF Len(ps) = 0 THEN [kind |-> "nopairs", rows |-> <<>>]
                        ELSE [kind |-> "pairs", rows |-> Limit(ps, args.limit)]
    /\ pairsBuilt' = TRUE
    /\ pc' = "done"
    /\ UNCHANGED <<args, stopsPre, stopsPost, trains, results, filesRead>>
    /\ UNCHANGED <<analyzeVars, netVars>>

\* the through listing
ReportThrough ==
    /\ pc = "report"
    /\ output' = [kind |-> "through", rows |-> Limit(results, args.limit)]
    /\ pc' = "done"
    /\ UNCHANGED <<args, stopsPre, stopsPost, trains, results, pairs, pairsBuilt,
                   filesRead>>
    /\ UNCHANGED <<analyzeVars, netVars>>

----------------------------------------------------------------------------
(* Analyzer: loadLegs, deriveLegsFromStops and the segment statistics.     *)
(* The display columns ka_name, route_name and color are copied through    *)
(* unchanged by the code and are left out of the rows.                     *)

MissingFile == [exists |-> FALSE, rows |-> <<>>]
FileOf(rows) == [exists |-> TRUE, rows |-> rows]

LegMinutes_noWrap(aMin, bMin) ==
    IF aMin # None /\ bMin # None THEN Some(bMin[1] - aMin[1]) ELSE None

\* d = bMin - aMin; if (d < 0) d += 24 * 60; null unless both are numbers
LegMinutes(aMin, bMin) ==
    IF aMin # None /\ bMin # None
    THEN LET d == bMin[1] - aMin[1]
         IN  Some(IF d < 0 THEN d + MinutesPerDay ELSE d)
    ELSE None

\* one LegOut per adjacent pair of the train's stops sorted by stop_index
LegsOfTrain(trainId, list0) ==
    LET list == SortStops(list0)
    IN  [i \in 1..(IF Len(list) > 0 THEN Len(list) - 1 ELSE 0) |->
            [train_id |-> trainId, seq |-> i,
             from_station |-> list[i].station_name,
             to_station |-> list[i + 1].station_name,
             leg_minutes |-> LegMinutes(toNum(list[i].time_est_min),
                                        toNum(list[i + 1].time_est_min))]]

deriveLegsFromStops(rows) ==
    LET order == TrainOrder(rows)
    IN  Concat([k \in 1..Len(order) |-> LegsOfTrain(order[k], RowsOf(rows, order[k]))])

\* rows.map((r, idx) => ...) of legs.csv
MapLegRows(rows) ==
    [k \in 1..Len(rows) |->
        [train_id |-> rows[k].train_id,
         seq |-> NumberOr(rows[k].from_index, k),
         from_station |-> rows[k].from_station,
         to_station |-> rows[k].to_station,
         leg_minutes |-> toNum(rows[k].leg_minutes)]]

LoadSource_stopsFirst(legsFile, stopsFile) ==
    IF stopsFile.exists THEN "stops"
    ELSE IF legsFile.exists THEN "legs"
    ELSE "none"

\* which branch of loadLegs runs
LoadSource(legsFile, stopsFile) ==
    IF legsFile.exists THEN "legs"
    ELSE IF stopsFile.exists THEN "stops"
    ELSE "none"

loadLegs(legsFile, stopsFile) ==
    IF LoadSource(legsFile, stopsFile) = "legs" THEN MapLegRows(legsFile.rows)
    ELSE IF LoadSource(legsFile, stopsFile) = "stops" THEN deriveLegsFromStops(stopsFile.rows)
    ELSE <<>>

\* files opened with readCsv by loadLegs
LoadReads(legsFile, stopsFile) ==
    IF LoadSource(legsFile, stopsFile) = "legs" THEN {<<"DIR", "legs.csv">>}
    ELSE IF LoadSource(legsFile, stopsFile) = "stops" THEN {<<"DIR", "stops.csv">>}
    ELSE {}

NotFound == "legs.csv atau stops.csv tidak ditemukan"

----------------------------------------------------------------------------
(* Segment statistics of the single-directory analysis *)

Min2_second(a, b) == b

\* Math.min, Math.max
Min2(a, b) == IF a < b THEN a ELSE b
Max2(a, b) == IF a > b THEN a ELSE b

EmptyStats == [count |-> 0, min |-> None, max |-> None, sum |-> 0]

pushStat_countsNull(st, v) ==
    IF v = None THEN [st EXCEPT !.count = st.count + 1]
    ELSE [count |-> st.count + 1,
          sum |-> st.sum + v[1],
          min |-> IF st.min = None THEN v ELSE Some(Min2(st.min[1], v[1])),
          max |-> IF st.max = None THEN v ELSE Some(Max2(st.max[1], v[1]))]

\* if (v == null) return; count++, sum += v, min and max updated
pushStat(st, v) ==
    IF v = None THEN st
    ELSE [count |-> st.count + 1,
          sum |-> st.sum + v[1],
          min |-> IF st.min = None THEN v ELSE Some(Min2(st.min[1], v[1])),
          max |-> IF st.max = None THEN v ELSE Some(Max2(st.max[1], v[1]))]

SegKey(l) == <<l.from_station, l.to_station>>

RECURSIVE FoldStats(_, _)
FoldStats(ls, key) ==
    IF ls = <<>> THEN EmptyStats
    ELSE LET rest == FoldStats(SubSeq(ls, 1, Len(ls) - 1), key)
             l == ls[Len(ls)]
         IN  IF SegKey(l) = key THEN pushStat(rest, l.leg_minutes) ELSE rest

\* keys of agg in insertion order
KeyOrder(ls) ==
    LET firsts == {i \in 1..Len(ls) : \A j \in 1..(i - 1) : SegKey(ls[j]) # SegKey(ls[i])}
        idx == SeqOfIndices(firsts)
    IN  [k \in 1..Len(idx) |-> SegKey(ls[idx[k]])]

\* Number((sum / count).toFixed(2)) in hundredths of a minute, half rounded up
Avg100(sum, count) == (200 * sum + count) \div (2 * count)

SegRowOf(key, st) ==
    [from_station |-> key[1], to_station |-> key[2], count |-> st.count,
     min |-> st.min, max |-> st.max,
     avg |-> IF st.count > 0 THEN Some(Avg100(st.sum, st.count)) ELSE None]

AvgOrZero(r) == IF r.avg = None THEN 0 ELSE r.avg[1]
AvgGreater(a, b) == AvgOrZero(a) > AvgOrZero(b)

SegmentStats(ls) ==
    LET keys == KeyOrder(ls)
    IN  StableSort([k \in 1..Len(keys) |-> SegRowOf(keys[k], FoldStats(ls, keys[k]))],
                   AvgGreater)

----------------------------------------------------------------------------
(* Audit mode: anomaly counters, z-score outliers and per-train continuity *)

SeqLess(a, b) == a.seq < b.seq

groupLegsByTrain_unsorted(ls) ==
    LET order == TrainOrder(ls)
    IN  [k \in 1..Len(order) |->
            [train_id |-> order[k], seq |-> RowsOf(ls, order[k])]]

\* Map train_id -> legs in insertion order, each list sorted by seq
groupLegsByTrain(ls) ==
    LET order == TrainOrder(ls)
    IN  [k \in 1..Len(order) |->
            [train_id |-> order[k],
             seq |-> StableSort(RowsOf(ls, order[k]), SeqLess)]]

\* for (i = 0; i < seq.length - 1; i++) if (to_station !== from_station) breaks++
Breaks(seq) ==
    Cardinality({i \in 1..(Len(seq) - 1) : seq[i].to_station # seq[i + 1].from_station})

ContinuityRows(ls) ==
    LET byTrain == groupLegsByTrain(ls)
    IN  [k \in 1..Len(byTrain) |->
            [train_id |-> byTrain[k].train_id, breaks |-> Breaks(byTrain[k].seq)]]

OverLimit == 60

\* total, nullCount, negCount, over60
AuditCounts(ls) ==
    [total_legs |-> Len(ls),
     null_legs |-> Cardinality({i \in 1..Len(ls) : ls[i].leg_minutes = None}),
     negative_legs |-> Cardinality({i \in 1..Len(ls) :
                          ls[i].leg_minutes # None /\ ls[i].leg_minutes[1] < 0}),
     over60min_legs |-> Cardinality({i \in 1..Len(ls) :
                          ls[i].leg_minutes # None /\ ls[i].leg_minutes[1] > OverLimit})]

HasMinutes(l) == l.leg_minutes # None

SegValues_nullAsZero(ls, key) ==
    LET mine == SelectSeq(ls, LAMBDA l : SegKey(l) = key)
    IN  [i \in 1..Len(mine) |->
            IF mine[i].leg_minutes = None THEN 0 ELSE mine[i].leg_minutes[1]]

\* segStats.get(k).values: the non-null leg_minutes of the segment, in order
SegValues(ls, key) ==
    LET mine == SelectSeq(ls, LAMBDA l : SegKey(l) = key /\ HasMinutes(l))
    IN  [i \in 1..Len(mine) |-> mine[i].leg_minutes[1]]

RECURSIVE SumSeq(_)
SumSeq(arr) == IF arr = <<>> THEN 0 ELSE Head(arr) + SumSeq(Tail(arr))

\* n * (x - mean): the deviation of x scaled to an integer
Dev(arr, x) == Len(arr) * x - SumSeq(arr)

\* n^3 * population variance
SumSqDev(arr) ==
    LET S == SumSeq(arr)
        n == Len(arr)
        sq == [i \in 1..n |-> (n * arr[i] - S) * (n * arr[i] - S)]
    IN  SumSeq(sq)

MinSamples == 5
ZLimit == 3

\* z = |v - mean| / std evaluated in IEEE-754 doubles.  Pairs <<x, v>>: for
\* nine samples x and one sample v, in any order, the exact z of v is 3 and
\* the double evaluation of mean, std and z gives 2.9999999999999996 or less.
\* For nine samples 10 and one 50 (or the reverse) every intermediate value
\* is an integer and the double result is exactly 3.
RoundsBelowLimit == {<<10, 33>>, <<33, 10>>, <<50, 33>>, <<33, 50>>}

ZAtLeastLimit_two(arr, v) ==
    Len(arr) * Dev(arr, v) * Dev(arr, v) >= (ZLimit - 1) * (ZLimit - 1) * SumSqDev(arr)

\* z >= 3 for sample v of arr: n * Dev^2 against 9 * SumSqDev decides it
\* whenever the two differ; on equality the rounding of the doubles does
ZAtLeastLimit(arr, v) ==
    LET lhs == Len(arr) * Dev(arr, v) * Dev(arr, v)
        rhs == ZLimit * ZLimit * SumSqDev(arr)
    IN  IF lhs # rhs THEN lhs > rhs
        ELSE \A x \in Range(arr) : <<x, v>> \notin RoundsBelowLimit

\* if (arr.length < 5) continue; if (std === 0) continue; z >= 3 pushes
OutliersOfSegment(key, arr) ==
    IF Len(arr) < MinSamples THEN <<>>
    ELSE IF SumSqDev(arr) = 0 THEN <<>>
    ELSE LET hit == SelectSeq(arr, LAMBDA v : ZAtLeastLimit(arr, v))
         IN  [i \in 1..Len(hit) |-> [segment |-> key, value |-> hit[i]]]

\* segments in the insertion order of segStats: first non-null leg of each
Outliers(ls) ==
    LET keys == KeyOrder(SelectSeq(ls, HasMinutes))
    IN  Concat([k \in 1..Len(keys) |->
                   OutliersOfSegment(keys[k], SegValues(ls, keys[k]))])

NoAudit ==
    [total_legs |-> 0, null_legs |-> 0, negative_legs |-> 0, over60min_legs |-> 0,
     outlier_count |-> 0]

AuditSummary(ls) ==
    [total_legs |-> AuditCounts(ls).total_legs,
     null_legs |-> AuditCounts(ls).null_legs,
     negative_legs |-> AuditCounts(ls).negative_legs,
     over60min_legs |-> AuditCounts(ls).over60min_legs,
     outlier_count |-> Len(Outliers(ls))]

----------------------------------------------------------------------------
(* Inputs of the analyzer: legs.csv and stops.csv of the analysed directory *)

LegRowSet ==
    {[train_id |-> "101", from_index |-> NumFld(fi),
      from_station |-> seg[1], to_station |-> seg[2], leg_minutes |-> lm] :
        fi \in {0, 1},
        seg \in {<<"A", "B">>, <<"B", "C">>},
        lm \in {EmptyFld, TextFld, NumFld(-5), NumFld(0), NumFld(25), NumFld(1500)}}

LegFiles == {FileOf(rows) : rows \in SeqsOf(LegRowSet, 0, MaxLegRows)}

StationAt == <<"A", "B", "C">>

\* stops.csv rows: the station is the one at the row's stop_index
StopRowSet ==
    {[train_id |-> t, stop_index |-> NumFld(si), station_name |-> StationAt[si + 1],
      time_est |-> <<>>, time_est_min |-> m] :
        t \in {"101", "102"},
        si \in {0, 1, 2},
        m \in {EmptyFld, TextFld, NumFld(10), NumFld(1430)}}

StopFiles == {FileOf(rows) : rows \in SeqsOf(StopRowSet, 0, MaxStopRows)}

SampleStopFile ==
    FileOf(<< [train_id |-> "101", stop_index |-> NumFld(0), station_name |-> "A",
               time_est |-> <<>>, time_est_min |-> NumFld(10)],
              [train_id |-> "101", stop_index |-> NumFld(1), station_name |-> "B",
               time_est |-> <<>>, time_est_min |-> NumFld(440)] >>)

\* legs.csv rows of the audit: two trains, from_index 0 (falls back to the
\* row number), 1 or 2, two segments
AuditRowSet ==
    {[train_id |-> t, from_index |-> NumFld(fi),
      from_station |-> seg[1], to_station |-> seg[2], leg_minutes |-> NumFld(10)] :
        t \in {"101", "102"},
        fi \in {0, 1, 2},
        seg \in {<<"A", "B">>, <<"B", "C">>}}

AuditLegFiles == {FileOf(rows) : rows \in SeqsOf(AuditRowSet, 0, MaxAuditRows)}

\* a run is one legs.csv row repeated: the samples of a segment come in runs
\* of equal values
Repeat(row, n) == [i \in 1..n |-> row]

RunRow(seg, lm) ==
    [train_id |-> "101", from_index |-> NumFld(0),
     from_station |-> seg[1], to_station |-> seg[2], leg_minutes |-> lm]

RunRowSet ==
    {RunRow(<<"A", "B">>, lm) : lm \in {TextFld, NumFld(10), NumFld(33), NumFld(50)}}
    \cup {RunRow(<<"B", "C">>, NumFld(10))}

RunLengths ==
    {1, MinSamples - 1, MinSamples, MaxRunLength - 2, MaxRunLength - 1, MaxRunLength}

Runs == {Repeat(row, n) : row \in RunRowSet, n \in RunLengths}

RunFiles == {FileOf(Concat(rs)) : rs \in SeqsOf(Runs, 0, MaxRuns)}

----------------------------------------------------------------------------
(* Analyzer run: loadLegs, then the segment statistics *)

LoadLegsOk ==
    /\ apc = "start"
    /\ LoadSource(legsCsv, stopsCsv) # "none"
    /\ legs' = loadLegs(legsCsv, stopsCsv)
    /\ filesRead' = filesRead \cup LoadReads(legsCsv, stopsCsv)
    /\ apc' = "loaded"
    /\ UNCHANGED <<legsCsv, stopsCsv, loadError, segRows>>
    /\ UNCHANGED auditVars
    /\ UNCHANGED compareVars
    /\ UNCHANGED <<throughVars, netVars>>

\* throw new Error("legs.csv atau stops.csv tidak ditemukan")
LoadLegsFail ==
    /\ apc = "start"
    /\ LoadSource(legsCsv, stopsCsv) = "none"
    /\ loadError' = NotFound
    /\ apc' = "failed"
    /\ UNCHANGED <<legsCsv, stopsCsv, legs, segRows, filesRead>>
    /\ UNCHANGED auditVars
    /\ UNCHANGED compareVars
    /\ UNCHANGED <<throughVars, netVars>>

SegmentStatsStep ==
    /\ apc = "loaded"
    /\ segRows' = SegmentStats(legs)
    /\ apc' = "done"
    /\ UNCHANGED <<legsCsv, stopsCsv, legs, loadError, filesRead>>
    /\ UNCHANGED auditVars
    /\ UNCHANGED compareVars
    /\ UNCHANGED <<throughVars, netVars>>

\* audit mode: counters, outliers and continuity of the loaded legs
AuditStep ==
    /\ apc = "loaded"
    /\ auditSummary' = AuditSummary(legs)
    /\ outliers' = Outliers(legs)
    /\ continuityRows' = ContinuityRows(legs)
    /\ apc' = "audited"
    /\ UNCHANGED <<legsCsv, stopsCsv, legs, loadError, segRows, filesRead>>
    /\ UNCHANGED compareVars
    /\ UNCHANGED <<throughVars, netVars>>

----------------------------------------------------------------------------
(* Compare mode: buildCompareSeries *)

\* readTrains of a directory without trains.csv: the empty map
NoTrains == [t \in {} |-> [dest |-> ""]]

FinalDest_lastLeg(tid, seq, trainMap) == seq[Len(seq)].to_station

\* trains.get(tid)?.dest || seq[seq.length - 1]?.to_station || ""
FinalDest(tid, seq, trainMap) ==
    IF tid \in DOMAIN trainMap /\ trainMap[tid].dest # "" THEN trainMap[tid].dest
    ELSE seq[Len(seq)].to_station

\* for (i = startIdx; ...) { taken.push(leg); if (leg.to_station === dest) break; }
Taken(seq, startIdx, dest) ==
    LET hits == {i \in startIdx..Len(seq) : seq[i].to_station = dest}
        last == IF hits = {} THEN Len(seq) ELSE CHOOSE i \in hits : \A j \in hits : i <= j
    IN  SubSeq(seq, startIdx, last)

\* one iteration of the loop of extractSegments: the path of a train, if any
PathOfTrain(tid, seq, trainMap, startStation) ==
    LET startIdx == FindIndex(seq, LAMBDA l : l.from_station = startStation)
        dest == FinalDest(tid, seq, trainMap)
    IN  IF startIdx = 0 THEN <<>>
        ELSE IF dest = "" THEN <<>>
        ELSE << [dest |-> dest, taken |-> Taken(seq, startIdx, dest)] >>

Dedupe_none(labs) == labs

\* reduce((acc, lab) => { if (!acc.includes(lab)) acc.push(lab); ... }, [])
Dedupe(labs) ==
    LET firsts == {i \in 1..Len(labs) : \A j \in 1..(i - 1) : labs[j] # labs[i]}
        idx == SeqOfIndices(firsts)
    IN  [k \in 1..Len(idx) |-> labs[idx[k]]]

\* Map dest -> legs, in insertion order
extractSegments(byTrain, trainMap, startStation) ==
    LET paths == Concat([k \in 1..Len(byTrain) |->
                     PathOfTrain(byTrain[k].train_id, byTrain[k].seq, trainMap,
                                 startStation)])
        dests == Dedupe([k \in 1..Len(paths) |-> paths[k].dest])
    IN  [d \in 1..Len(dests) |->
            [dest |-> dests[d],
             legs |-> Concat([k \in 1..Len(paths) |->
                         IF paths[k].dest = dests[d] THEN paths[k].taken ELSE <<>>])]]

\* segs.get(dest), the empty list when the dataset has no such destination
SegsGet(segs, dest) ==
    LET hit == {k \in 1..Len(segs) : segs[k].dest = dest}
    IN  IF hit = {} THEN <<>> ELSE segs[CHOOSE k \in hit : TRUE].legs

\* labels in order of appearance, a label equal to the previous one dropped
labelsFrom(list) ==
    LET keep == {i \in 1..Len(list) : i = 1 \/ SegKey(list[i - 1]) # SegKey(list[i])}
        idx == SeqOfIndices(keep)
    IN  [k \in 1..Len(idx) |-> SegKey(list[idx[k]])]

labelOrderOf(listA, listB) == Dedupe(labelsFrom(listA) \o labelsFrom(listB))

\* mean of the non-null durations per label, null for a label without any
avgByLabel(list, labelOrder) ==
    [i \in 1..Len(labelOrder) |->
        LET vals == SegValues(list, labelOrder[i])
        IN  IF Len(vals) > 0 THEN Some(Avg100(SumSeq(vals), Len(vals))) ELSE None]

SeriesOf(segsA, segsB) ==
    LET allDests == Dedupe([k \in 1..Len(segsA) |-> segsA[k].dest]
                           \o [k \in 1..Len(segsB) |-> segsB[k].dest])
    IN  [d \in 1..Len(allDests) |->
            LET listA == SegsGet(segsA, allDests[d])
                listB == SegsGet(segsB, allDests[d])
                labelOrder == labelOrderOf(listA, listB)
            IN  [dest |-> allDests[d], labels |-> labelOrder,
                 avgA |-> avgByLabel(listA, labelOrder),
                 avgB |-> avgByLabel(listB, labelOrder)]]

buildCompareSeries(startStation, lsA, lsB, tA, tB) ==
    SeriesOf(extractSegments(groupLegsByTrain(lsA), tA, startStation),
             extractSegments(groupLegsByTrain(lsB), tB, startStation))

\* legs.csv rows of directory A: two trains, legs from or towards the start
\* station A, one leg without destination
CompareRowSet ==
    {[train_id |-> t, from_index |-> NumFld(fi),
      from_station |-> seg[1], to_station |-> seg[2], leg_minutes |-> seg[3]] :
        t \in {"101", "102"},
        fi \in {1, 2},
        seg \in {<<"A", "B", NumFld(10)>>, <<"B", "C", NumFld(25)>>,
                 <<"B", "C", TextFld>>, <<"B", "A", NumFld(10)>>,
                 <<"A", "", NumFld(10)>>}}

CompareFilesA == {FileOf(rows) : rows \in SeqsOf(CompareRowSet, 0, MaxCompareRows)}

CompareLeg(t, fi, from, to, lm) ==
    [train_id |-> t, from_index |-> NumFld(fi),
     from_station |-> from, to_station |-> to, leg_minutes |-> lm]

\* legs.csv of directory B
CompareFilesB ==
    { FileOf(<<>>),
      FileOf(<< CompareLeg("101", 1, "A", "B", NumFld(10)),
                CompareLeg("101", 2, "B", "C", TextFld) >>),
      FileOf(<< CompareLeg("201", 1, "A", "C", NumFld(25)) >>) }

DestMap(d) == [t \in {"101", "102"} |-> [dest |-> d]]

\* trains.csv of directory A: absent, or every train with the same dest
\* column: empty, a station of the legs, a station no leg reaches
CompareTrainsA == {NoTrains, DestMap(""), DestMap("C"), DestMap("Z")}

CompareData ==
    {[legsA |-> fa, legsB |-> fb, trainsA |-> ta, trainsB |-> NoTrains] :
        fa \in CompareFilesA, fb \in CompareFilesB, ta \in CompareTrainsA}
    \cup {[legsA |-> MissingFile, legsB |-> FileOf(<<>>), trainsA |-> NoTrains,
           trainsB |-> NoTrains]}

\* console.error("Mode compare membutuhkan --start=..."); process.exit(2)
CompareNoStart ==
    /\ cpc = "start"
    /\ startArg = ""
    /\ cpc' = "exit2"
    /\ UNCHANGED <<startArg, legsA, legsB, trainsA, trainsB, segsAByDest, segsBByDest,
                   series, filesRead>>
    /\ UNCHANGED <<dirVars, auditVars, throughVars, netVars>>

\* Promise.all([loadLegs(A), loadLegs(B), readTrains(A), readTrains(B)])
CompareLoad(Data) ==
    /\ cpc = "start"
    /\ startArg # ""
    /\ \E d \in Data :
         /\ LoadSource(d.legsA, MissingFile) # "none"
         /\ LoadSource(d.legsB, MissingFile) # "none"
         /\ legsA' = loadLegs(d.legsA, MissingFile)
         /\ legsB' = loadLegs(d.legsB, MissingFile)
         /\ trainsA' = d.trainsA
         /\ trainsB' = d.trainsB
    /\ filesRead' = filesRead \cup {<<"A", "legs.csv">>, <<"B", "legs.csv">>}
    /\ cpc' = "loaded"
    /\ UNCHANGED <<startArg, segsAByDest, segsBByDest, series>>
    /\ UNCHANGED <<dirVars, auditVars, throughVars, netVars>>

\* loadLegs of a directory with neither legs.csv nor stops.csv throws
CompareLoadFail(Data) ==
    /\ cpc = "start"
    /\ startArg # ""
    /\ \E d \in Data :
         \/ LoadSource(d.legsA, MissingFile) = "none"
         \/ LoadSource(d.legsB, MissingFile) = "none"
    /\ cpc' = "failed"
    /\ UNCHANGED <<startArg, legsA, legsB, trainsA, trainsB, segsAByDest, segsBByDest,
                   series, filesRead>>
    /\ UNCHANGED <<dirVars, auditVars, throughVars, netVars>>

\* const series = buildCompareSeries(start, legsA, legsB, trainsA, trainsB)
BuildSeriesStep ==
    /\ cpc = "loaded"
    /\ segsAByDest' = extractSegments(groupLegsByTrain(legsA), trainsA, startArg)
    /\ segsBByDest' = extractSegments(groupLegsByTrain(legsB), trainsB, startArg)
    /\ series' = buildCompareSeries(startArg, legsA, legsB, trainsA, trainsB)
    /\ cpc' = "done"
    /\ UNCHANGED <<startArg, legsA, legsB, trainsA, trainsB, filesRead>>
    /\ UNCHANGED <<dirVars, auditVars, throughVars, netVars>>

----------------------------------------------------------------------------
(* Scraper: AppOrchestrator.run from the fetched schedule on, with its     *)
(* mapWithConcurrency and the per-train function                           *)

ConcurrencyLimit == 10

\* DefaultTimeService.hmsToMin: h * 60 + m + s / 60.  The schedule times of
\* the model are whole minutes (s = 0), for which the quotient adds nothing.
Time_hmsToMin(hms) ==
    IF hms = <<>> THEN None
    ELSE IF Len(hms) < 2 \/ hms[1] < 0 \/ hms[2] < 0 THEN None
    ELSE Some(hms[1] * 60 + hms[2])

\* DefaultTimeService.diffMin
Time_diffMin(aHms, bHms) ==
    LET a == Time_hmsToMin(aHms)
        b == Time_hmsToMin(bHms)
    IN  IF a = None \/ b = None THEN None
        ELSE IF b[1] - a[1] < 0 THEN Some(b[1] - a[1] + MinutesPerDay)
        ELSE Some(b[1] - a[1])

\* localStops of one train: stop_index is the position in the API answer
localStops(t, stops) ==
    [i \in 1..Len(stops) |->
        [train_id |-> t.train_id, stop_index |-> i - 1,
         station_name |-> stops[i].station_name, time_est |-> stops[i].time_est,
         time_est_min |-> Time_hmsToMin(stops[i].time_est)]]

\* localLegs of one train: one leg per pair of consecutive stops
localLegs(t, stops) ==
    [i \in 1..(Len(stops) - 1) |->
        [train_id |-> t.train_id, from_index |-> i - 1,
         from_station |-> stops[i].station_name,
         to_index |-> i, to_station |-> stops[i + 1].station_name,
         leg_minutes |-> Time_diffMin(stops[i].time_est, stops[i + 1].time_est)]]

\* what the per-train function returns: ok with rows, or not ok with a reason
FnValue(t) ==
    IF t.fetch = "ok"
    THEN [ok |-> TRUE, trainId |-> t.train_id, stops |-> localStops(t, t.stops),
          legs |-> localLegs(t, t.stops), reason |-> ""]
    ELSE [ok |-> FALSE, trainId |-> t.train_id, stops |-> <<>>, legs |-> <<>>,
          reason |-> "fetchTrain failed"]

NoResult == [status |-> "empty", trainId |-> "", value |-> <<>>]

\* the entry a worker stores: fulfilled with the value, or rejected when the
\* function itself rejects (the logger throwing inside its finally block)
Settled(t) ==
    IF t.fetch = "reject"
    THEN [status |-> "rejected", trainId |-> t.train_id, value |-> <<>>]
    ELSE [status |-> "fulfilled", trainId |-> t.train_id, value |-> <<FnValue(t)>>]

WorkerCount_perItem(limit, n) == n

\* Math.min(limit, items.length)
WorkerCount(limit, n) == Min2(limit, n)

ResultSlot_arrival(i, d) == d + 1

\* results[i], as a 1-based position
ResultSlot(i, d) == i + 1

\* for (const r of results) if fulfilled and ok: stopsAll.push(...r.value.stops)
StopsAll(res) ==
    Concat([k \in 1..Len(res) |->
        IF res[k].status = "fulfilled" /\ res[k].value[1].ok
        THEN res[k].value[1].stops ELSE <<>>])

LegsAll(res) ==
    Concat([k \in 1..Len(res) |->
        IF res[k].status = "fulfilled" /\ res[k].value[1].ok
        THEN res[k].value[1].legs ELSE <<>>])

\* esc: v == null ? "" : String(v), for a numeric column
CellOf(x) == IF x = None THEN EmptyFld ELSE NumFld(x[1])

\* toCSV of the stop rows, read back as the cells of stops.csv
StopsCsvOf(rows) ==
    FileOf([k \in 1..Len(rows) |->
        [train_id |-> rows[k].train_id, stop_index |-> NumFld(rows[k].stop_index),
         station_name |-> rows[k].station_name, time_est |-> rows[k].time_est,
         time_est_min |-> CellOf(rows[k].time_est_min)]])

\* toCSV of the leg rows, read back as the cells of legs.csv
LegsCsvOf(rows) ==
    FileOf([k \in 1..Len(rows) |->
        [train_id |-> rows[k].train_id, from_index |-> NumFld(rows[k].from_index),
         from_station |-> rows[k].from_station, to_station |-> rows[k].to_station,
         leg_minutes |-> CellOf(rows[k].leg_minutes)]])

\* mapWithConcurrency is entered: Array.from calls worker() workerCount times,
\* and each call runs up to its first await: i = nextIndex++, fn(items[i], i),
\* this.api.fetchTrain(...)
StartWorkers ==
    /\ spc = "start"
    /\ LET n == Len(schedule)
           wc == WorkerCount(ConcurrencyLimit, n)
       IN  /\ workerAt' = [w \in 1..wc |-> w - 1]
           /\ nextIndex' = wc
           /\ invoked' = [i \in 1..n |-> IF i <= wc THEN 1 ELSE 0]
           /\ mapResults' = [i \in 1..n |-> NoResult]
    /\ spc' = "running"
    /\ UNCHANGED <<schedule, done, stopsOut, legsOut>>
    /\ UNCHANGED <<httpVars, throughVars, analyzeVars, filesRead>>

\* the fetchTrain of worker w settles: fn finishes (done++), the worker stores
\* the outcome at results[i], takes the next index and, if there is an item
\* left, calls fn for it; otherwise the worker ends
FetchSettles ==
    /\ spc = "running"
    /\ \E w \in DOMAIN workerAt :
         /\ workerAt[w] >= 0
         /\ LET i == workerAt[w]
                j == nextIndex
            IN  /\ mapResults' = [mapResults EXCEPT ![ResultSlot(i, done)] =
                                                        Settled(schedule[i + 1])]
                /\ nextIndex' = j + 1
                /\ IF j >= Len(schedule)
                   THEN /\ workerAt' = [workerAt EXCEPT ![w] = -1]
                        /\ UNCHANGED invoked
                   ELSE /\ workerAt' = [workerAt EXCEPT ![w] = j]
                        /\ invoked' = [invoked EXCEPT ![j + 1] = @ + 1]
    /\ done' = done + 1
    /\ UNCHANGED <<spc, schedule, stopsOut, legsOut>>
    /\ UNCHANGED <<httpVars, throughVars, analyzeVars, filesRead>>

\* every worker has ended: Promise.all resolves, the rows of the fulfilled ok
\* results are collected in index order and the CSV files are written
WriteFiles ==
    /\ spc = "running"
    /\ \A w \in DOMAIN workerAt : workerAt[w] = -1
    /\ stopsOut' = StopsCsvOf(StopsAll(mapResults))
    /\ legsOut' = LegsCsvOf(LegsAll(mapResults))
    /\ spc' = "written"
    /\ UNCHANGED <<schedule, nextIndex, workerAt, invoked, mapResults, done>>
    /\ UNCHANGED <<httpVars, throughVars, analyzeVars, filesRead>>

\* schedules: train k stops at the first 1 + (k mod 3) stations of the line;
\* under "fails" every third fetchTrain throws, under "rejects" the second
\* train's function rejects as well
ScrapeIds ==
    <<"1001", "1002", "1003", "1004", "1005", "1006", "1007", "1008", "1009",
      "1010", "1011", "1012", "1013">>

Line ==
    << [station_name |-> "A", time_est |-> <<23, 40, 0>>],
       [station_name |-> "B", time_est |-> <<23, 55, 0>>],
       [station_name |-> "C", time_est |-> <<0, 5, 0>>],
       [station_name |-> "D", time_est |-> <<>>] >>

FetchOf(k, pattern) ==
    IF pattern = "ok" THEN "ok"
    ELSE IF k % 3 = 0 THEN "fail"
    ELSE IF pattern = "rejects" /\ k = 2 THEN "reject"
    ELSE "ok"

ScheduleOf(n, pattern) ==
    [k \in 1..n |->
        [train_id |-> ScrapeIds[k], fetch |-> FetchOf(k, pattern),
         stops |-> SubSeq(Line, 1, 1 + (k % 3))]]

Schedules == {ScheduleOf(n, p) : n \in 0..MaxTrains, p \in {"ok", "fails", "rejects"}}

\* legs.csv files the scraper writes for up to MaxScraped trains that stop at
\* the first 0 to 4 stations of the line
ScrapedSchedules ==
    UNION {{[k \in 1..n |-> [train_id |-> ScrapeIds[k], fetch |-> "ok",
                             stops |-> SubSeq(Line, 1, len[k])]] :
               len \in [1..n -> 0..Len(Line)]} :
           n \in 0..MaxScraped}

ScrapedLegs(sched) == LegsAll([k \in 1..Len(sched) |-> Settled(sched[k])])

ScrapedLegFiles == {LegsCsvOf(ScrapedLegs(sched)) : sched \in ScrapedSchedules}

----------------------------------------------------------------------------
(* FetchHttpClient.getJSON: the retry loop around fetch *)

DefaultRetries == 2
BackoffMs == 750

NoAnswer == [kind |-> "none", of |-> 0]

\* what can go wrong in one attempt: a response that is not ok, a rejected
\* fetch, the timeout aborting the fetch, a body that is not JSON
FailureKinds == {"http", "network", "timeout", "json"}

IsLastAttempt_never(att, r) == FALSE

\* if (attempt === retries) throw e
IsLastAttempt(att, r) == att = r

\* setTimeout(r, 750 * (attempt + 1))
Backoff(att) == BackoffMs * (att + 1)

\* for (...; attempt <= retries; ...): new AbortController, setTimeout, fetch
BeginAttempt ==
    /\ hpc = "loop"
    /\ attempt <= retries
    /\ timer' = TRUE
    /\ hpc' = "fetch"
    /\ UNCHANGED <<retries, attempt, requests, slept, answer>>
    /\ UNCHANGED <<scrapeVars, throughVars, analyzeVars, filesRead>>

\* the loop condition fails: throw new Error("Request failed after retries")
LoopEnds ==
    /\ hpc = "loop"
    /\ ~(attempt <= retries)
    /\ answer' = [kind |-> "error", of |-> -1]
    /\ hpc' = "thrown"
    /\ UNCHANGED <<retries, attempt, timer, requests, slept>>
    /\ UNCHANGED <<scrapeVars, throughVars, analyzeVars, filesRead>>

\* the response is ok and its body parses: clearTimeout(t); return res.json()
ResponseOk ==
    /\ hpc = "fetch"
    /\ requests' = Append(requests, "ok")
    /\ timer' = FALSE
    /\ answer' = [kind |-> "value", of |-> attempt]
    /\ hpc' = "returned"
    /\ UNCHANGED <<retries, attempt, slept>>
    /\ UNCHANGED <<scrapeVars, throughVars, analyzeVars, filesRead>>

\* the attempt fails and control reaches the catch block: clearTimeout(t),
\* then either the error is thrown or the back-off sleep starts
AttemptFails ==
    /\ hpc = "fetch"
    /\ \E kind \in FailureKinds : requests' = Append(requests, kind)
    /\ timer' = FALSE
    /\ IF IsLastAttempt(attempt, retries)
       THEN /\ answer' = [kind |-> "error", of |-> attempt]
            /\ hpc' = "thrown"
            /\ UNCHANGED slept
       ELSE /\ slept' = Append(slept, Backoff(attempt))
            /\ hpc' = "sleep"
            /\ UNCHANGED answer
    /\ UNCHANGED <<retries, attempt>>
    /\ UNCHANGED <<scrapeVars, throughVars, analyzeVars, filesRead>>

\* the back-off timer resolves: attempt++
SleepEnds ==
    /\ hpc = "sleep"
    /\ attempt' = attempt + 1
    /\ hpc' = "loop"
    /\ UNCHANGED <<retries, timer, requests, slept, answer>>
    /\ UNCHANGED <<scrapeVars, throughVars, analyzeVars, filesRead>>

----------------------------------------------------------------------------
(* Specifications *)

ThroughIdle ==
    /\ pc = "idle"
    /\ args = ArgsOf("", "", "", "", "depart", FALSE, 0, AbsentArg)
    /\ stopsPre = <<>> /\ stopsPost = <<>> /\ trains = EmptyMeta
    /\ results = <<>> /\ pairs = <<>> /\ pairsBuilt = FALSE
    /\ output = [kind |-> "none", rows |-> <<>>]

AuditIdle == auditSummary = NoAudit /\ outliers = <<>> /\ continuityRows = <<>>

CompareIdle ==
    /\ cpc = "idle" /\ startArg = ""
    /\ legsA = <<>> /\ legsB = <<>> /\ trainsA = NoTrains /\ trainsB = NoTrains
    /\ segsAByDest = <<>> /\ segsBByDest = <<>> /\ series = <<>>

ScrapeIdle ==
    /\ spc = "idle" /\ schedule = <<>> /\ nextIndex = 0
    /\ workerAt = <<>> /\ invoked = <<>> /\ mapResults = <<>> /\ done = 0
    /\ stopsOut = MissingFile /\ legsOut = MissingFile

HttpIdle ==
    /\ hpc = "idle" /\ retries = 0 /\ attempt = 0 /\ timer = FALSE
    /\ requests = <<>> /\ slept = <<>> /\ answer = NoAnswer

NetIdle == ScrapeIdle /\ HttpIdle

AnalyzeIdle ==
    /\ apc = "idle"
    /\ legsCsv = MissingFile /\ stopsCsv = MissingFile
    /\ legs = <<>> /\ loadError = "" /\ segRows = <<>>
    /\ AuditIdle
    /\ CompareIdle

InitRun(ArgSet) ==
    /\ args \in ArgSet
    /\ pc = "start"
    /\ stopsPre = <<>> /\ stopsPost = <<>> /\ trains = EmptyMeta
    /\ results = <<>> /\ pairs = <<>> /\ pairsBuilt = FALSE
    /\ output = [kind |-> "none", rows |-> <<>>]
    /\ filesRead = {}
    /\ AnalyzeIdle
    /\ NetIdle

NextRun(Data) ==
    \/ ValidateFail
    \/ ValidateOk
    \/ LoadStops(Data)
    \/ LoadStopsFail
    \/ FindThroughStep
    \/ BuildPairsStep
    \/ ReportThrough

\* through detection over trains of every route
ThroughArgs ==
    { ArgsOf("PRE", "POST", "", "", "depart", FALSE, 0, AbsentArg),
      ArgsOf("PRE", "", "", "", "depart", FALSE, 0, AbsentArg) }

InitThrough == InitRun(ThroughArgs)
ThroughData == RoutedData \cup SampleData
NextThrough == NextRun(ThroughData)
SpecThrough == InitThrough /\ [][NextThrough]_vars

\* transfer pairing over inbound and outbound legs of every sample time
TransferArgs ==
    { ArgsOf("", "", "PRE", "POST", "depart", FALSE, 0, mw) :
          mw \in {AbsentArg, TextFld, NumFld(20)} }
    \cup { ArgsOf("", "", "PRE", "", "depart", FALSE, 0, AbsentArg) }

InitTransfer == InitRun(TransferArgs)
TransferData == TimedData \cup SampleData
NextTransfer == NextRun(TransferData)
SpecTransfer == InitTransfer /\ [][NextTransfer]_vars

\* transfer pairing under each --order and --desc
OrderArgs ==
    { ArgsOf("", "", "PRE", "POST", o, d, 0, AbsentArg) :
          o \in {"depart", "wait"}, d \in BOOLEAN }
    \cup { ArgsOf("", "", "", "POST", "wait", FALSE, 0, AbsentArg) }

InitOrder == InitRun(OrderArgs)
NextOrder == NextRun(TransferData)
SpecOrder == InitOrder /\ [][NextOrder]_vars

\* the analyzer's leg loading
InitAnalyze ==
    /\ apc = "start"
    /\ \/ legsCsv \in LegFiles /\ stopsCsv \in {MissingFile, SampleStopFile}
       \/ legsCsv = MissingFile /\ stopsCsv \in StopFiles \cup {MissingFile}
    /\ legs = <<>> /\ loadError = "" /\ segRows = <<>>
    /\ AuditIdle
    /\ CompareIdle
    /\ filesRead = {}
    /\ ThroughIdle
    /\ NetIdle

NextAnalyze ==
    \/ LoadLegsOk
    \/ LoadLegsFail
    \/ SegmentStatsStep

SpecAnalyze == InitAnalyze /\ [][NextAnalyze]_vars

\* the audit of a directory: short files of any rows, long files of runs
InitAudit ==
    /\ apc = "start"
    /\ \/ legsCsv \in AuditLegFiles \cup RunFiles /\ stopsCsv = MissingFile
       \/ legsCsv = MissingFile /\ stopsCsv \in {MissingFile, SampleStopFile}
    /\ legs = <<>> /\ loadError = "" /\ segRows = <<>>
    /\ AuditIdle
    /\ CompareIdle
    /\ filesRead = {}
    /\ ThroughIdle
    /\ NetIdle

NextAudit ==
    \/ LoadLegsOk
    \/ LoadLegsFail
    \/ AuditStep

SpecAudit == InitAudit /\ [][NextAudit]_vars

\* the comparison of two directories from the start station A
InitCompare ==
    /\ cpc = "start"
    /\ startArg \in {"", "A"}
    /\ legsA = <<>> /\ legsB = <<>> /\ trainsA = NoTrains /\ trainsB = NoTrains
    /\ segsAByDest = <<>> /\ segsBByDest = <<>> /\ series = <<>>
    /\ apc = "idle"
    /\ legsCsv = MissingFile /\ stopsCsv = MissingFile
    /\ legs = <<>> /\ loadError = "" /\ segRows = <<>>
    /\ AuditIdle
    /\ filesRead = {}
    /\ ThroughIdle
    /\ NetIdle

NextCompare ==
    \/ CompareNoStart
    \/ CompareLoad(CompareData)
    \/ CompareLoadFail(CompareData)
    \/ BuildSeriesStep

SpecCompare == InitCompare /\ [][NextCompare]_vars

\* candidate selection: one inbound train against up to MaxOutbound outbound
\* trains, each at one of the sample times 07:10, 07:20, 07:45, 23:50, 00:10
SelectIds == <<"201", "202", "203", "204", "205", "206">>
SelectSamples == {k \in 1..Len(TimeSamples) : k + 2 <= Len(TimeSamples)}

SelectPost ==
    UNION {{TimedFile(SelectIds, <<H, D>>, n, st) : st \in [1..n -> SelectSamples]} :
              n \in 0..MaxOutbound}

SelectData ==
    {[pre |-> TrainRows("101", <<V, H>>, k, 0), post |-> q, trains |-> FullMeta] :
        k \in SelectSamples, q \in SelectPost}

SelectArgs ==
    { ArgsOf("", "", "PRE", "POST", "depart", FALSE, 0, mw) : mw \in {AbsentArg, NumFld(20)} }
    \cup { ArgsOf("", "", "PRE", "", "depart", FALSE, 0, AbsentArg) }

InitSelect == InitRun(SelectArgs)
SelectRuns == SelectData \cup SampleData
NextSelect == NextRun(SelectRuns)
SpecSelect == InitSelect /\ [][NextSelect]_vars

\* the two copies of the matching functions on the same datasets: up to
\* MaxEquivTrains pre-hub trains of four routes and two sample times against
\* a menu of post-hub files, with and without metadata and a max-wait
EquivRoutes == {<<V, H>>, <<V, H, D>>, <<H, V, D>>, <<H, D>>}

EquivPre ==
    UNION {{Concat([i \in 1..n |-> TrainRows(PreIds[i], rs[i], st[i], 0)]) :
               rs \in [1..n -> EquivRoutes], st \in [1..n -> {1, 3}]} :
           n \in 0..MaxEquivTrains}

EquivPost ==
    { <<>>,
      TrainRows("201", <<H, D>>, 3, 0),
      TrainRows("201", <<H, D>>, 5, 0) \o TrainRows("202", <<H, D>>, 2, 0),
      TrainRows("101", <<H, D>>, 3, 0),
      TrainRows("202", <<V, H, D>>, 4, 0) \o TrainRows("201", <<D, H>>, 1, 0) }

EquivData ==
    {[pre |-> p, post |-> q, trains |-> m] :
        p \in EquivPre, q \in EquivPost, m \in {EmptyMeta, FullMeta}}

EquivArgs ==
    { ArgsOf("", "", "PRE", "POST", "depart", FALSE, 0, mw) : mw \in {AbsentArg, NumFld(20)} }
    \cup { ArgsOf("", "", "PRE", "", "depart", FALSE, 0, AbsentArg) }

InitEquiv == InitRun(EquivArgs)
NextEquiv == NextRun(EquivData)
SpecEquiv == InitEquiv /\ [][NextEquiv]_vars

\* the argument checks of both tools: every combination of --a, --b, --pre,
\* --post for the through run, --start given or not for the comparison
StartupArgs ==
    { ArgsOf(a, b, pre, post, "depart", FALSE, 0, AbsentArg) :
          a \in {"", "A"}, b \in {"", "B"}, pre \in {"", "PRE"}, post \in {"", "POST"} }

InitStartup == InitRun(StartupArgs) \/ InitCompare

NextStartup ==
    \/ NextRun(SampleData)
    \/ NextCompare

SpecStartup == InitStartup /\ [][NextStartup]_vars

\* the scrape of a fetched schedule
InitScrape ==
    /\ spc = "start"
    /\ schedule \in Schedules
    /\ nextIndex = 0 /\ workerAt = <<>> /\ invoked = <<>> /\ mapResults = <<>>
    /\ done = 0
    /\ stopsOut = MissingFile /\ legsOut = MissingFile
    /\ HttpIdle
    /\ ThroughIdle
    /\ AnalyzeIdle
    /\ filesRead = {}

NextScrape ==
    \/ StartWorkers
    \/ FetchSettles
    \/ WriteFiles

SpecScrape == InitScrape /\ [][NextScrape]_vars

\* the audit of a legs.csv the scraper wrote
InitRoundTrip ==
    /\ apc = "start"
    /\ legsCsv \in ScrapedLegFiles \cup {MissingFile}
    /\ stopsCsv = MissingFile
    /\ legs = <<>> /\ loadError = "" /\ segRows = <<>>
    /\ AuditIdle
    /\ CompareIdle
    /\ filesRead = {}
    /\ ThroughIdle
    /\ NetIdle

SpecRoundTrip == InitRoundTrip /\ [][NextAudit]_vars

\* one getJSON call with the retries option from -1 to MaxRetries
InitHttp ==
    /\ hpc = "loop"
    /\ retries \in -1..MaxRetries
    /\ attempt = 0 /\ timer = FALSE
    /\ requests = <<>> /\ slept = <<>> /\ answer = NoAnswer
    /\ ScrapeIdle
    /\ ThroughIdle
    /\ AnalyzeIdle
    /\ filesRead = {}

NextHttp ==
    \/ BeginAttempt
    \/ LoopEnds
    \/ ResponseOk
    \/ AttemptFails
    \/ SleepEnds

SpecHttp == InitHttp /\ [][NextHttp]_vars

Init == InitThrough
Next == NextThrough
Spec == SpecThrough

----------------------------------------------------------------------------
(* Properties *)

Finished == pc = "done"
NoMaxWait == args.maxwait.kind \notin {"num"}

CombinedStops == stopsPre \o stopsPost
InboundLegs == LegAs(stopsPre, trains, args.via)
OutboundLegs == LegBs(stopsPost, trains, args.dest)
Departures == {OutboundLegs[i].departTAMin : i \in 1..Len(OutboundLegs)}
PairsFrom(tid) == {i \in 1..Len(pairs) : pairs[i].from_train_id = tid}
SetMin(S) == CHOOSE m \in S : \A x \in S : m <= x
CircularWait(arrive, depart) == (depart - arrive) % MinutesPerDay

\* C1: every emitted TransferPair has wait_min >= 0, and with a max-wait
\* bound no emitted pair waits longer than the bound.
C1_WaitWithinBound ==
    \A i \in 1..Len(pairs) :
        /\ pairs[i].wait_min >= 0
        /\ args.maxwait.kind = "num" => pairs[i].wait_min <= args.maxwait.n

\* a bounded run that emitted a cross-midnight pair waiting exactly the bound
C1_Witness ==
    /\ Finished /\ pairsBuilt
    /\ args.maxwait.kind = "num"
    /\ \E i \in 1..Len(pairs) :
          /\ pairs[i].wait_min = args.maxwait.n
          /\ pairs[i].arrive_ta_time = <<23, 50, 0>>
          /\ pairs[i].depart_ta_time = <<0, 10, 0>>

IsStation(row, name) == toLowerCase(row.station_name) = toLowerCase(name)

\* positions i < j < k of the first via, first hub and first dest stop
OrderedViaHubDest(arr, via, dest) ==
    \E i, j, k \in 1..Len(arr) :
        /\ i < j /\ j < k
        /\ IsStation(arr[i], via) /\ \A x \in 1..(i - 1) : ~IsStation(arr[x], via)
        /\ IsStation(arr[j], Hub) /\ \A x \in 1..(j - 1) : ~IsStation(arr[x], Hub)
        /\ IsStation(arr[k], dest) /\ \A x \in 1..(k - 1) : ~IsStation(arr[x], dest)

\* C2: findThrough returns a vehicle only if, in its stops sorted by stop
\* index, via comes strictly before the hub and the destination strictly
\* after the hub; a vehicle missing one of the three is never returned.
C2_ThroughOrder ==
    \A i \in 1..Len(results) :
        OrderedViaHubDest(SortStops(RowsOf(CombinedStops, results[i].train_id)),
                          args.via, args.dest)

\* a through vehicle was returned while another vehicle that stops at via,
\* hub and destination in another order was not
C2_Witness ==
    /\ Finished /\ Len(results) = 1
    /\ \E t \in Range(TrainOrder(CombinedStops)) :
          LET arr == RowsOf(CombinedStops, t)
          IN  /\ \A r \in Range(results) : r.train_id # t
              /\ \E i, j, k \in 1..Len(arr) :
                    IsStation(arr[i], args.via) /\ IsStation(arr[j], Hub)
                    /\ IsStation(arr[k], args.dest)

\* C3: without a max-wait bound, an inbound leg arriving at minute a with
\* some outbound departure >= a is paired with the earliest departure
\* d >= a and waits d - a.
C3_NearestSameDay ==
    (pairsBuilt /\ NoMaxWait) =>
        LET ins == InboundLegs
            outs == OutboundLegs
            deps == {outs[m].departTAMin : m \in 1..Len(outs)}
        IN  \A n \in 1..Len(ins) :
              LET a == ins[n].arriveTAMin
                  later == {d \in deps : d >= a}
                  mine == PairsFrom(ins[n].trainId)
              IN  later # {} =>
                    /\ Cardinality(mine) = 1
                    /\ \A i \in mine :
                          /\ pairs[i].wait_min = SetMin(later) - a
                          /\ \E m \in 1..Len(outs) :
                                /\ outs[m].departTAMin = SetMin(later)
                                /\ outs[m].trainId = pairs[i].to_train_id
                                /\ outs[m].departTA = pairs[i].depart_ta_time

\* arrival 07:20 against departures 07:10 and 07:45 waits 25 minutes
C3_Witness ==
    /\ Finished /\ pairsBuilt /\ NoMaxWait
    /\ Departures = {430, 465}
    /\ \E i \in 1..Len(pairs) :
          /\ pairs[i].arrive_ta_time = <<7, 20, 0>>
          /\ pairs[i].depart_ta_time = <<7, 45, 0>>
          /\ pairs[i].wait_min = 25

\* C4: without a max-wait bound, an inbound leg arriving at minute a when
\* every outbound departure is < a is paired with the earliest departure d
\* of the day and waits d - a + 1440.
C4_WrapToNextDay ==
    (pairsBuilt /\ NoMaxWait) =>
        LET ins == InboundLegs
            outs == OutboundLegs
            deps == {outs[m].departTAMin : m \in 1..Len(outs)}
        IN  \A n \in 1..Len(ins) :
              LET a == ins[n].arriveTAMin
                  mine == PairsFrom(ins[n].trainId)
              IN  (deps # {} /\ \A d \in deps : d < a) =>
                    /\ Cardinality(mine) = 1
                    /\ \A i \in mine :
                          /\ pairs[i].wait_min = SetMin(deps) - a + 1440
                          /\ \E m \in 1..Len(outs) :
                                /\ outs[m].departTAMin = SetMin(deps)
                                /\ outs[m].trainId = pairs[i].to_train_id
                                /\ outs[m].departTA = pairs[i].depart_ta_time

\* arrival 23:50 against the single departure 00:10 waits 20 minutes
C4_Witness ==
    /\ Finished /\ pairsBuilt /\ NoMaxWait
    /\ Departures = {10}
    /\ \E i \in 1..Len(pairs) :
          /\ pairs[i].arrive_ta_time = <<23, 50, 0>>
          /\ pairs[i].wait_min = 20

\* C5: transfer pairs are computed and reported only when findThrough on
\* the combined stops returned no vehicle; with a through vehicle
\* buildTransferPairs is never invoked and only through results are reported.
C5_TransferOnlyWithoutThrough ==
    /\ pairsBuilt => results = <<>>
    /\ output.kind \in {"pairs", "nopairs"} => results = <<>>
    /\ (pc \in {"report", "done"} /\ results # <<>>) =>
          (~pairsBuilt /\ pairs = <<>> /\ output.kind \in {"none", "through"})
    /\ (Finished /\ results # <<>>) => output.kind = "through"

\* a run that reported a through vehicle although an inbound and an
\* outbound leg were available for pairing
C5_Witness ==
    /\ Finished /\ output.kind = "through" /\ results # <<>> /\ ~pairsBuilt
    /\ InboundLegs # <<>> /\ OutboundLegs # <<>>

Feasible(a, outs) ==
    \E m \in 1..Len(outs) :
        args.maxwait.kind = "num" =>
            CircularWait(a.arriveTAMin, outs[m].departTAMin) <= args.maxwait.n

\* C6: every inbound leg yields at most one pair, and yields one exactly
\* when some outbound leg has a circular wait within the max-wait bound
\* (without a bound: when there is an outbound leg); nothing else is emitted.
C6_OnePairPerFeasibleLeg ==
    pairsBuilt =>
        LET ins == InboundLegs
            outs == OutboundLegs
        IN  /\ \A n \in 1..Len(ins) :
                  Cardinality(PairsFrom(ins[n].trainId)) =
                      IF Feasible(ins[n], outs) THEN 1 ELSE 0
            /\ \A i \in 1..Len(pairs) :
                  \E n \in 1..Len(ins) : ins[n].trainId = pairs[i].from_train_id

\* two inbound legs under a bound: one paired, the other silently dropped
C6_Witness ==
    /\ Finished /\ pairsBuilt /\ args.maxwait.kind = "num"
    /\ Len(InboundLegs) = 2 /\ OutboundLegs # <<>>
    /\ Len(pairs) = 1 /\ output.kind = "pairs"

Loaded == apc \in {"loaded", "done"}
FromLegs == legsCsv.exists
FromStops == ~legsCsv.exists /\ stopsCsv.exists

ValidMinute(f) == f.kind = "num" /\ f.n \in 0..1439
LegsOf(tid) == SelectSeq(legs, LAMBDA l : l.train_id = tid)
InRange(d) == d = None \/ d[1] \in 0..1439

\* C7: for adjacent stops (ascending stop index) of one vehicle with valid
\* minute values, the derived leg has leg_minutes = (to - from) mod 1440,
\* a value in 0..1439; a vehicle with n stops yields exactly n - 1 legs.
C7_DerivedLegMinutes ==
    (Loaded /\ FromStops) =>
        \A t \in {stopsCsv.rows[i].train_id : i \in 1..Len(stopsCsv.rows)} :
            LET list == SortStops(RowsOf(stopsCsv.rows, t))
                mine == LegsOf(t)
            IN  /\ Len(mine) = Len(list) - 1
                /\ \A i \in 1..Len(mine) :
                      /\ mine[i].from_station = list[i].station_name
                      /\ mine[i].to_station = list[i + 1].station_name
                      /\ (ValidMinute(list[i].time_est_min)
                            /\ ValidMinute(list[i + 1].time_est_min)) =>
                           /\ mine[i].leg_minutes =
                                Some((list[i + 1].time_est_min.n
                                        - list[i].time_est_min.n) % 1440)
                           /\ mine[i].leg_minutes[1] \in 0..1439

\* a train of three stops read out of order whose leg 23:50 -> 00:10
\* crosses midnight
C7_Witness ==
    /\ Loaded /\ FromStops
    /\ \E t \in {"101", "102"} :
          /\ Len(RowsOf(stopsCsv.rows, t)) = 3
          /\ RowsOf(stopsCsv.rows, t) # SortStops(RowsOf(stopsCsv.rows, t))
          /\ Len(LegsOf(t)) = 2
          /\ \E i \in 1..2 : LegsOf(t)[i].leg_minutes = Some(20)

PresentCount(rows, from, to) ==
    Cardinality({i \in 1..Len(rows) :
                    /\ rows[i].from_station = from /\ rows[i].to_station = to
                    /\ rows[i].leg_minutes.kind = "num"})

\* C9: a leg dataset row with an empty leg_minutes field yields a LegRecord
\* with null duration, and that leg is left out of the segment statistics
\* instead of counting as a 0-minute leg.
C9_EmptyMinutesIsNull ==
    /\ (Loaded /\ FromLegs) =>
          \A i \in 1..Len(legs) :
              legsCsv.rows[i].leg_minutes.kind = "empty" => legs[i].leg_minutes = None
    /\ (apc = "done" /\ FromLegs) =>
          \A k \in 1..Len(segRows) :
              segRows[k].count =
                  PresentCount(legsCsv.rows, segRows[k].from_station, segRows[k].to_station)

\* C10: loadLegs fails with the not-found error exactly when neither
\* dataset exists; an existing leg dataset is used and the stop dataset is
\* not read; with only the stop dataset the legs are derived from it.
C10_LoadLegsSource ==
    apc \in {"loaded", "failed", "done"} =>
        /\ (apc = "failed") <=> (~legsCsv.exists /\ ~stopsCsv.exists)
        /\ (loadError = NotFound) <=> (apc = "failed")
        /\ apc = "failed" => filesRead = {} /\ legs = <<>>
        /\ legsCsv.exists =>
              /\ filesRead = {<<"DIR", "legs.csv">>}
              /\ Len(legs) = Len(legsCsv.rows)
              /\ \A i \in 1..Len(legs) :
                    /\ legs[i].from_station = legsCsv.rows[i].from_station
                    /\ legs[i].to_station = legsCsv.rows[i].to_station
        /\ (~legsCsv.exists /\ stopsCsv.exists) =>
              /\ filesRead = {<<"DIR", "stops.csv">>}
              /\ Len(legs) = Len(stopsCsv.rows)
                               - Cardinality({stopsCsv.rows[i].train_id :
                                                 i \in 1..Len(stopsCsv.rows)})

\* both datasets exist: the two leg rows were mapped, stops.csv left unread
C10_Witness ==
    /\ apc = "loaded" /\ legsCsv.exists /\ stopsCsv.exists
    /\ Len(stopsCsv.rows) = 2 /\ Len(legs) = 2
    /\ <<"DIR", "stops.csv">> \notin filesRead


----------------------------------------------------------------------------
(* Audit properties *)

Audited == apc = "audited"

TrainsOf(ls) == {ls[i].train_id : i \in 1..Len(ls)}

\* leg i comes before leg j in the order by seq, file order breaking ties
Before(ls, i, j) == ls[i].seq < ls[j].seq \/ (ls[i].seq = ls[j].seq /\ i < j)

\* adjacent pairs of a train's legs in that order whose stations do not join
BreakPairs(ls, tid) ==
    LET idx == {i \in 1..Len(ls) : ls[i].train_id = tid}
    IN  {p \in idx \X idx :
            /\ Before(ls, p[1], p[2])
            /\ \A k \in idx : ~(Before(ls, p[1], k) /\ Before(ls, k, p[2]))
            /\ ls[p[1]].to_station # ls[p[2]].from_station}

\* C11: every train of the audited legs has exactly one continuity row, whose
\* breaks is the number of adjacent pairs (i, i+1) of the train's legs sorted
\* by seq with to_station(i) # from_station(i+1); a train with one leg has 0.
C11_BreaksCount ==
    Audited =>
        /\ {continuityRows[k].train_id : k \in 1..Len(continuityRows)} = TrainsOf(legs)
        /\ \A k, m \in 1..Len(continuityRows) :
              continuityRows[k].train_id = continuityRows[m].train_id => k = m
        /\ \A k \in 1..Len(continuityRows) :
              LET tid == continuityRows[k].train_id
              IN  /\ continuityRows[k].breaks = Cardinality(BreakPairs(legs, tid))
                  /\ Len(RowsOf(legs, tid)) = 1 => continuityRows[k].breaks = 0

\* a train whose legs are out of seq order in the file, so that the count in
\* file order differs, next to a train with a single leg
C11_Witness ==
    /\ Audited
    /\ \E k \in 1..Len(continuityRows) :
          /\ continuityRows[k].breaks >= 1
          /\ continuityRows[k].breaks # Breaks(RowsOf(legs, continuityRows[k].train_id))
    /\ \E k \in 1..Len(continuityRows) :
          Len(RowsOf(legs, continuityRows[k].train_id)) = 1

SamplesOf(ls, key) ==
    {i \in 1..Len(ls) : SegKey(ls[i]) = key /\ ls[i].leg_minutes # None}

\* C12: no outlier row names a segment with fewer than 5 non-null samples.
C12_NoOutlierBelowFiveSamples ==
    Audited =>
        \A k \in 1..Len(outliers) :
            Cardinality(SamplesOf(legs, outliers[k].segment)) >= MinSamples

\* an audit with a segment of at least five legs of which fewer than five
\* have a duration
C12_Witness ==
    /\ Audited
    /\ \E i \in 1..Len(legs) :
          /\ legs[i].leg_minutes # None
          /\ Cardinality(SamplesOf(legs, SegKey(legs[i]))) < MinSamples
          /\ Cardinality({m \in 1..Len(legs) : SegKey(legs[m]) = SegKey(legs[i])})
                >= MinSamples

\* (value - mean)^2 >= 9 * population variance, in exact arithmetic
ExactOutlier(ls, i) ==
    LET arr == SegValues(ls, SegKey(ls[i]))
        v == ls[i].leg_minutes[1]
    IN  /\ Len(arr) >= MinSamples
        /\ SumSqDev(arr) # 0
        /\ Len(arr) * Dev(arr, v) * Dev(arr, v) >= ZLimit * ZLimit * SumSqDev(arr)

\* C13: a sample is an outlier row exactly when its segment has at least 5
\* non-null samples, non-zero population variance and
\* (value - mean)^2 >= 9 * variance; outlier_count is the number of rows.
C13_OutlierExactlyAtThreeSigma ==
    Audited =>
        /\ auditSummary.outlier_count = Len(outliers)
        /\ \A i \in 1..Len(legs) :
              legs[i].leg_minutes # None =>
                 LET row == [segment |-> SegKey(legs[i]), value |-> legs[i].leg_minutes[1]]
                     rows == {k \in 1..Len(outliers) : outliers[k] = row}
                     same == {m \in SamplesOf(legs, SegKey(legs[i])) :
                                 legs[m].leg_minutes = legs[i].leg_minutes}
                 IN  Cardinality(rows) =
                        (IF ExactOutlier(legs, i) THEN Cardinality(same) ELSE 0)


----------------------------------------------------------------------------
(* Segment statistics properties *)

StatsDone == apc = "done"

RowsFor(rows, key) ==
    {k \in 1..Len(rows) : <<rows[k].from_station, rows[k].to_station>> = key}

ValuesOf(ls, key) == {ls[i].leg_minutes[1] : i \in SamplesOf(ls, key)}

\* a is the quotient sum / count in hundredths, rounded to the nearest
RoundedMean(a, sum, count) ==
    LET diff == 100 * sum - a * count
    IN  2 * diff <= count /\ 2 * diff >= -count

\* C14: each segment of the legs has one row; its count, min, max and mean
\* are those of the segment's non-null durations, and a segment without any
\* non-null duration has count 0 and null min, max and mean.
C14_StatsOverNonNull ==
    StatsDone =>
        \A i \in 1..Len(legs) :
            LET key == SegKey(legs[i])
                vals == ValuesOf(legs, key)
                n == Cardinality(SamplesOf(legs, key))
            IN  /\ Cardinality(RowsFor(segRows, key)) = 1
                /\ \A k \in RowsFor(segRows, key) :
                      /\ segRows[k].count = n
                      /\ n = 0 => /\ segRows[k].min = None
                                  /\ segRows[k].max = None
                                  /\ segRows[k].avg = None
                      /\ n > 0 =>
                            /\ segRows[k].min # None /\ segRows[k].min[1] \in vals
                            /\ \A v \in vals : segRows[k].min[1] <= v
                            /\ segRows[k].max # None /\ segRows[k].max[1] \in vals
                            /\ \A v \in vals : segRows[k].max[1] >= v
                            /\ segRows[k].avg # None
                            /\ RoundedMean(segRows[k].avg[1],
                                           SumSeq(SegValues(legs, key)), n)

\* a segment whose legs all lack a duration next to a segment with one
C14_Witness ==
    /\ StatsDone
    /\ \E k \in 1..Len(segRows) : segRows[k].count = 0 /\ segRows[k].avg = None
    /\ \E k \in 1..Len(segRows) : segRows[k].count > 0
    /\ \E i \in 1..Len(legs) : legs[i].leg_minutes = None

Permuted(ls, p) == [i \in 1..Len(ls) |-> ls[p[i]]]

\* C15: the set of segment rows (key, count, min, max, mean) is the same for
\* every permutation of the legs.
C15_OrderIndependent ==
    StatsDone =>
        \A p \in Permutations(1..Len(legs)) :
            Range(SegmentStats(Permuted(legs, p))) = Range(segRows)

\* two legs of one segment with different durations, the larger one first
C15_Witness ==
    /\ StatsDone
    /\ \E i, j \in 1..Len(legs) :
          /\ i < j
          /\ SegKey(legs[i]) = SegKey(legs[j])
          /\ legs[i].leg_minutes # None /\ legs[j].leg_minutes # None
          /\ legs[i].leg_minutes[1] > legs[j].leg_minutes[1]


----------------------------------------------------------------------------
(* ThroughResult properties *)

Found == pc \in {"transfer", "report", "done"}

\* the first stop named name among the train's stops sorted by stop_index
FirstStopAt(tid, name) ==
    LET arr == SortStops(RowsOf(CombinedStops, tid))
        i == CHOOSE i \in 1..Len(arr) :
                 IsStation(arr[i], name) /\ \A x \in 1..(i - 1) : ~IsStation(arr[x], name)
    IN  [row |-> arr[i], pos |-> i - 1]

\* C16: each ThroughResult has the scheduled time of the vehicle's via stop
\* as depart_via_time, and the results are in ascending order of that time
\* string; the stops Palmerah 07:00, Tanah Abang 07:20, Sudirman 07:40 give
\* exactly one result, with time 07:00.
C16_ViaTimeAscending ==
    Found =>
        /\ \A i \in 1..Len(results) :
              results[i].depart_via_time =
                  FirstStopAt(results[i].train_id, args.via).row.time_est
        /\ \A i, j \in 1..Len(results) :
              i < j => ~TimeLess(results[j].depart_via_time, results[i].depart_via_time)
        /\ CombinedStops = ScenarioStops =>
              /\ Len(results) = 1
              /\ results[1].depart_via_time = <<7, 0, 0>>

\* two through vehicles of which the one later in the file leaves via earlier
C16_Witness ==
    /\ Found /\ Len(results) = 2
    /\ TimeLess(results[1].depart_via_time, results[2].depart_via_time)
    /\ \E i, j \in 1..Len(CombinedStops) :
          /\ i < j
          /\ CombinedStops[i].train_id = results[2].train_id
          /\ CombinedStops[j].train_id = results[1].train_id

\* C17 (as stated): each ThroughResult records the departure time at the hub
\* station and the sequence index of the hub stop.
C17_HubTimeAndIndex ==
    Found =>
        \A i \in 1..Len(results) :
            LET hub == FirstStopAt(results[i].train_id, Hub)
            IN  /\ results[i].depart_via_time = hub.row.time_est
                /\ results[i].via_index = NumberOr(hub.row.stop_index, hub.pos)

\* C17 (amended): each ThroughResult records the scheduled time at the via
\* stop and the via stop's stop_index, or the stop's 0-based position among
\* the vehicle's sorted stops when stop_index is 0 or not a number; nothing
\* of the hub stop is recorded.
C17_ViaTimeAndIndex ==
    Found =>
        \A i \in 1..Len(results) :
            LET v == FirstStopAt(results[i].train_id, args.via)
            IN  /\ results[i].depart_via_time = v.row.time_est
                /\ results[i].via_index = NumberOr(v.row.stop_index, v.pos)
                /\ DOMAIN results[i] = {"train_id", "ka_name", "route_name",
                                        "depart_via_time", "via_index",
                                        "continues_to_dest"}

\* a through vehicle whose via stop has a non-zero stop_index and whose hub
\* stop has another time and index
C17_Witness ==
    /\ Found
    /\ \E i \in 1..Len(results) :
          LET v == FirstStopAt(results[i].train_id, args.via)
              hub == FirstStopAt(results[i].train_id, Hub)
          IN  /\ results[i].via_index = 1
              /\ hub.row.stop_index = NumFld(2)
              /\ hub.row.time_est # results[i].depart_via_time


----------------------------------------------------------------------------
(* Ordering of the reported transfer pairs *)

Reported == output.kind = "pairs"

\* C18: the reported pairs are ordered. By wait ascending: waits do not
\* decrease and pairs of equal wait are in ascending order of the inbound
\* departure-time string. By departure ascending: the inbound departure-time
\* strings do not decrease. With the descending flag the primary key does
\* not increase.
C18_PairOrdering ==
    Reported =>
        \A i, j \in 1..Len(output.rows) :
            i < j =>
               LET x == output.rows[i]
                   y == output.rows[j]
               IN  /\ (args.order = "wait" /\ ~args.desc) =>
                          /\ x.wait_min <= y.wait_min
                          /\ x.wait_min = y.wait_min =>
                                ~TimeLess(y.depart_via_time, x.depart_via_time)
                   /\ (args.order = "wait" /\ args.desc) => x.wait_min >= y.wait_min
                   /\ (args.order = "depart" /\ ~args.desc) =>
                          ~TimeLess(y.depart_via_time, x.depart_via_time)
                   /\ (args.order = "depart" /\ args.desc) =>
                          ~TimeLess(x.depart_via_time, y.depart_via_time)

\* ordered by wait descending: two reported pairs of different wait whose
\* inbound trains are listed in the file in the other order
C18_Witness ==
    /\ Reported /\ args.order = "wait" /\ args.desc
    /\ Len(output.rows) = 2
    /\ output.rows[1].wait_min > output.rows[2].wait_min
    /\ \E i, j \in 1..Len(stopsPre) :
          /\ i < j
          /\ stopsPre[i].train_id = output.rows[2].from_train_id
          /\ stopsPre[j].train_id = output.rows[1].from_train_id


----------------------------------------------------------------------------
(* Compare mode properties *)

Compared == cpc = "done"

SortedLegs(ls, tid) == StableSort(RowsOf(ls, tid), SeqLess)

StartLegs(seq) == {i \in 1..Len(seq) : seq[i].from_station = startArg}

FirstOf(S) == CHOOSE i \in S : \A j \in S : i <= j

\* the final destination of a vehicle: the metadata destination, else the
\* destination of its last leg
RecordedDest(trainMap, tid, seq) ==
    IF tid \in DOMAIN trainMap /\ trainMap[tid].dest # "" THEN trainMap[tid].dest
    ELSE seq[Len(seq)].to_station

\* what a vehicle contributed: the destinations it is grouped under, each
\* with the vehicle's legs found there
ContributionOf(segs, tid) ==
    {c \in {<<segs[k].dest, SelectSeq(segs[k].legs, LAMBDA l : l.train_id = tid)>> :
               k \in 1..Len(segs)} : c[2] # <<>>}

PathToFinalDest(segs, ls, trainMap) ==
    \A tid \in TrainsOf(ls) :
        LET seq == SortedLegs(ls, tid)
            final == RecordedDest(trainMap, tid, seq)
            c == ContributionOf(segs, tid)
        IN  IF StartLegs(seq) = {} THEN c = {}
            ELSE LET s == FirstOf(StartLegs(seq))
                 IN  \E e \in s..Len(seq) :
                        /\ seq[e].to_station = final
                        /\ \A j \in s..(e - 1) : seq[j].to_station # final
                        /\ c = {<<seq[e].to_station, SubSeq(seq, s, e)>>}

PathUnderFinalDest(segs, ls, trainMap) ==
    \A tid \in TrainsOf(ls) :
        LET seq == SortedLegs(ls, tid)
            final == RecordedDest(trainMap, tid, seq)
            c == ContributionOf(segs, tid)
        IN  IF StartLegs(seq) = {} \/ final = "" THEN c = {}
            ELSE LET s == FirstOf(StartLegs(seq))
                     hits == {j \in s..Len(seq) : seq[j].to_station = final}
                     e == IF hits = {} THEN Len(seq) ELSE FirstOf(hits)
                 IN  c = {<<final, SubSeq(seq, s, e)>>}

LabelsIn(list) == {SegKey(list[i]) : i \in 1..Len(list)}

HasDuration(list, lab) ==
    \E i \in 1..Len(list) : SegKey(list[i]) = lab /\ list[i].leg_minutes # None

\* C20: for every destination of the series the labels are distinct, every
\* label seen in dataset A precedes every label seen only in dataset B, both
\* mean arrays are as long as the label sequence, and a mean is null exactly
\* when its dataset has no non-null duration for the label.
C20_AlignedSeries ==
    Compared =>
        \A d \in 1..Len(series) :
            LET labels == series[d].labels
                listA == SegsGet(segsAByDest, series[d].dest)
                listB == SegsGet(segsBByDest, series[d].dest)
            IN  /\ \A i, j \in 1..Len(labels) : labels[i] = labels[j] => i = j
                /\ Range(labels) = LabelsIn(listA) \cup LabelsIn(listB)
                /\ \A i, j \in 1..Len(labels) :
                      (labels[i] \in LabelsIn(listA) /\ labels[j] \notin LabelsIn(listA))
                          => i < j
                /\ Len(series[d].avgA) = Len(labels)
                /\ Len(series[d].avgB) = Len(labels)
                /\ \A i \in 1..Len(labels) :
                      /\ series[d].avgA[i] = None <=> ~HasDuration(listA, labels[i])
                      /\ series[d].avgB[i] = None <=> ~HasDuration(listB, labels[i])

\* a destination with a label of both datasets and a label of B only, with
\* a mean of B that is null because the leg has no duration
C20_Witness ==
    /\ Compared
    /\ \E d \in 1..Len(series) :
          LET labels == series[d].labels
              listA == SegsGet(segsAByDest, series[d].dest)
              listB == SegsGet(segsBByDest, series[d].dest)
          IN  /\ \E i \in 1..Len(labels) :
                    labels[i] \in LabelsIn(listA) \cap LabelsIn(listB)
              /\ \E i \in 1..Len(labels) :
                    /\ labels[i] \in LabelsIn(listB) \ LabelsIn(listA)
                    /\ series[d].avgB[i] = None
                    /\ series[d].avgA[i] = None


----------------------------------------------------------------------------
(* Independence of the matching from the train metadata *)

\* a ThroughResult without its display names
RoutingOf(r) ==
    [train_id |-> r.train_id, depart_via_time |-> r.depart_via_time,
     via_index |-> r.via_index, continues_to_dest |-> r.continues_to_dest]

\* a PairResult without the display names of its two trains
PairingOf(p) ==
    [from_train_id |-> p.from_train_id, to_train_id |-> p.to_train_id,
     depart_via_time |-> p.depart_via_time, arrive_ta_time |-> p.arrive_ta_time,
     depart_ta_time |-> p.depart_ta_time, arrive_dest_time |-> p.arrive_dest_time,
     wait_min |-> p.wait_min]

\* C21: for the same stop rows, the results and the pairs found with the
\* loaded metadata map are, display names aside, the results and pairs found
\* with the empty map: same vehicles, times, waits, pairings and order.
C21_MetadataIndependent ==
    /\ Found =>
          LET bare == OrderByDepart(findThrough(CombinedStops, EmptyMeta,
                                                args.via, args.dest), args)
          IN  /\ Len(bare) = Len(results)
              /\ \A i \in 1..Len(results) : RoutingOf(results[i]) = RoutingOf(bare[i])
    /\ pairsBuilt =>
          LET bare == OrderPairs(buildTransferPairs(stopsPre, stopsPost, EmptyMeta,
                                    args.via, args.dest, MaxWaitMin(args)), args)
          IN  /\ Len(bare) = Len(pairs)
              /\ \A i \in 1..Len(pairs) : PairingOf(pairs[i]) = PairingOf(bare[i])

\* a run with populated metadata that reported two pairs with display names
C21_Witness ==
    /\ pairsBuilt /\ trains # EmptyMeta
    /\ Len(pairs) = 2
    /\ \A i \in 1..Len(pairs) :
          pairs[i].meta_from # NoMeta /\ pairs[i].meta_to # NoMeta

----------------------------------------------------------------------------
(* C22 *)

ThroughStarted == pc \notin {"idle", "start", "exit2"}
CompareStarted == cpc \notin {"idle", "start", "exit2"}

\* C22: a through run without both --a and --b and without both --pre and
\* --post, and a comparison without --start, end with exit code 2 having read
\* no dataset file and having run no matching or statistics step; a through
\* run that passes the check has a non-empty pre-hub and post-hub directory.
C22_ArgumentErrorsBeforeLoading ==
    /\ pc # "idle" /\ DirsMissing(args) => pc \in {"start", "exit2"}
    /\ pc = "exit2" =>
          /\ DirsMissing(args)
          /\ filesRead = {}
          /\ stopsPre = <<>> /\ stopsPost = <<>> /\ trains = EmptyMeta
          /\ results = <<>> /\ pairs = <<>> /\ ~pairsBuilt
          /\ output.kind = "usage"
    /\ cpc # "idle" /\ startArg = "" => cpc \in {"start", "exit2"}
    /\ cpc = "exit2" =>
          /\ startArg = ""
          /\ filesRead = {}
          /\ legsA = <<>> /\ legsB = <<>>
          /\ segsAByDest = <<>> /\ segsBByDest = <<>> /\ series = <<>>
    /\ ThroughStarted =>
          /\ srcPre(args) # "" /\ srcPost(args) # ""
          /\ \A f \in filesRead : f[1] # ""

\* a run given --a and --post only has stopped with the usage text, and a
\* run given --a, --b and --pre has loaded its files from --pre and --b
C22_Witness ==
    \/ /\ pc = "exit2"
       /\ args.aDir = "A" /\ args.bDir = "" /\ args.preDir = "" /\ args.postDir = "POST"
    \/ /\ pc = "done"
       /\ args.aDir = "A" /\ args.bDir = "B" /\ args.preDir = "PRE" /\ args.postDir = ""
       /\ <<"PRE", "stops.csv">> \in filesRead /\ <<"B", "stops.csv">> \in filesRead

----------------------------------------------------------------------------
(* C23 *)

InDay(m) == m \in 0..(MinutesPerDay - 1)

\* circular waits from an arrival to every outbound departure
WaitsFrom(outs, arrive) ==
    {CircularWait(arrive, outs[m].departTAMin) : m \in 1..Len(outs)}

AllowedWaits(waits) ==
    {w \in waits : args.maxwait.kind = "num" => w <= args.maxwait.n}

\* C23: with all minute values in 0..1439, the pair chosen for an inbound leg
\* from the three candidates waits exactly the minimum of (departure - arrival)
\* mod 1440 over all outbound legs, and an inbound leg has a pair whenever
\* some outbound leg is within the max-wait bound.
C23_ThreeCandidatesFindMinimum ==
    pairsBuilt =>
        LET ins == InboundLegs
            outs == OutboundLegs
        IN  (/\ \A n \in 1..Len(ins) : InDay(ins[n].arriveTAMin)
             /\ \A m \in 1..Len(outs) : InDay(outs[m].departTAMin))
            => \A n \in 1..Len(ins) :
                  LET from == PairsFrom(ins[n].trainId)
                      waits == WaitsFrom(outs, ins[n].arriveTAMin)
                  IN  IF AllowedWaits(waits) = {}
                      THEN from = {}
                      ELSE /\ Cardinality(from) = 1
                           /\ \A i \in from : pairs[i].wait_min = SetMin(waits)

\* four outbound legs at four different minutes, the pair taking the last
\* of them, so that two legs were never among the candidates
C23_Witness ==
    /\ pairsBuilt /\ Len(pairs) = 1
    /\ pairs[1].wait_min > 0
    /\ LET outs == OutboundLegs
       IN  /\ Len(outs) = 4
           /\ \A i, j \in 1..4 : i # j => outs[i].departTAMin # outs[j].departTAMin
           /\ pairs[1].to_train_id = outs[4].trainId

----------------------------------------------------------------------------
(* C24 *)

\* C24: when pairs are reported, no pair has the same vehicle as inbound and
\* outbound vehicle, also when a vehicle id is in both datasets.
C24_NoSelfPair ==
    pairsBuilt => \A i \in 1..Len(pairs) : pairs[i].from_train_id # pairs[i].to_train_id

----------------------------------------------------------------------------
(* C26 *)

DataLoaded == pc \in {"find", "transfer", "report", "done"}

\* C26: for the same stop rows, metadata, via, destination and max-wait the
\* findThrough of through.ts and of ThroughCommand return the same list, and
\* so do the two buildTransferPairs, element by element in the same order.
C26_CommandEquivalent ==
    DataLoaded =>
        /\ Cmd_findThrough(CombinedStops, trains, args.via, args.dest)
              = findThrough(CombinedStops, trains, args.via, args.dest)
        /\ Cmd_buildTransferPairs(stopsPre, stopsPost, trains, args.via, args.dest,
                                  MaxWaitMin(args))
              = buildTransferPairs(stopsPre, stopsPost, trains, args.via, args.dest,
                                   MaxWaitMin(args))

\* a run whose two pairs include a wait across midnight, and whose class copy
\* returns those same two pairs
C26_Witness ==
    /\ pairsBuilt /\ Len(pairs) = 2
    /\ \E i \in 1..2 : TimeLess(pairs[i].depart_ta_time, pairs[i].arrive_ta_time)
    /\ pairs = OrderPairs(Cmd_buildTransferPairs(stopsPre, stopsPost, trains, args.via,
                                                 args.dest, MaxWaitMin(args)), args)

----------------------------------------------------------------------------
(* C30 *)

\* C30 as stated: no outlier row comes from a segment with 10 or fewer
\* non-null samples, that is, every reported segment has at least 11.
C30_NoOutlierUpToTenSamples ==
    Audited =>
        \A k \in 1..Len(outliers) :
            Cardinality(SamplesOf(legs, outliers[k].segment)) > ZLimit * ZLimit + 1

\* C30 amended: no outlier row comes from a segment with 9 or fewer non-null
\* samples; a lone deviating sample among n has |z| = sqrt(n - 1), which
\* reaches 3 at n = 10.
C30_NoOutlierUpToNineSamples ==
    Audited =>
        \A k \in 1..Len(outliers) :
            Cardinality(SamplesOf(legs, outliers[k].segment)) > ZLimit * ZLimit

\* an audit of a segment with nine durations, eight alike and one apart,
\* that reports nothing
C30_Witness ==
    /\ Audited /\ outliers = <<>>
    /\ \E i, j \in 1..Len(legs) :
          /\ SegKey(legs[i]) = SegKey(legs[j])
          /\ legs[i].leg_minutes # None /\ legs[j].leg_minutes # None
          /\ legs[i].leg_minutes # legs[j].leg_minutes
          /\ Cardinality(SamplesOf(legs, SegKey(legs[i]))) = ZLimit * ZLimit
          /\ Cardinality({m \in SamplesOf(legs, SegKey(legs[i])) :
                            legs[m].leg_minutes = legs[i].leg_minutes}) = 1

----------------------------------------------------------------------------
(* C27, C28: the scraper's dispatch *)

InFlight == {w \in DOMAIN workerAt : workerAt[w] >= 0}

\* C27: at every moment of a scrape at most 10 fetchTrain calls are in
\* flight: there are at most min(10, number of trains) workers, and each has
\* at most one outstanding call, for an item no other worker holds.
C27_AtMostTenInFlight ==
    spc \in {"running", "written"} =>
        /\ Cardinality(InFlight) <= ConcurrencyLimit
        /\ Len(workerAt) <= ConcurrencyLimit
        /\ Len(workerAt) <= Len(schedule)
        /\ \A w, x \in InFlight : workerAt[w] = workerAt[x] => w = x
        /\ \A w \in InFlight : workerAt[w] < Len(schedule)

\* more trains than workers: ten calls in flight, one of them for the
\* eleventh train, taken over by a worker whose earlier call settled
C27_Witness ==
    /\ spc = "running"
    /\ Len(schedule) > ConcurrencyLimit
    /\ Cardinality(InFlight) = ConcurrencyLimit
    /\ \E w \in InFlight : workerAt[w] >= ConcurrencyLimit
    /\ done >= 1

ItemRows(rows, k) == SelectSeq(rows, LAMBDA r : r.train_id = schedule[k].train_id)

\* C28: fn is called at most once per item and exactly once by the time the
\* map completes; an outcome is stored at the index of its item and says
\* whether that item's call fulfilled or rejected; the map completes, without
\* rejecting, exactly when no call is outstanding, and no entry is missing
\* then; the progress counter then equals the number of trains; a train whose
\* fetch failed has no row in stops.csv and legs.csv, and every row of every
\* other train is written.
C28_MapWithConcurrency ==
    spc \in {"running", "written"} =>
        LET n == Len(schedule)
        IN  /\ Len(mapResults) = n /\ Len(invoked) = n
            /\ \A k \in 1..n :
                  /\ invoked[k] <= 1
                  /\ mapResults[k] # NoResult =>
                        /\ invoked[k] = 1
                        /\ mapResults[k] = Settled(schedule[k])
                  /\ (mapResults[k] = NoResult /\ invoked[k] = 1) =>
                        \E w \in InFlight : workerAt[w] = k - 1
            /\ done = Cardinality({k \in 1..n : mapResults[k] # NoResult})
            /\ (InFlight = {}) => \A k \in 1..n : mapResults[k] # NoResult
            /\ spc = "written" =>
                  /\ InFlight = {}
                  /\ done = n
                  /\ \A k \in 1..n :
                        /\ invoked[k] = 1
                        /\ ItemRows(stopsOut.rows, k) =
                              (IF schedule[k].fetch = "ok"
                               THEN StopsCsvOf(localStops(schedule[k], schedule[k].stops)).rows
                               ELSE <<>>)
                        /\ ItemRows(legsOut.rows, k) =
                              (IF schedule[k].fetch = "ok"
                               THEN LegsCsvOf(localLegs(schedule[k], schedule[k].stops)).rows
                               ELSE <<>>)

\* a completed scrape of more trains than workers in which a fetch failed, a
\* call rejected and the remaining trains' rows are in the files
C28_Witness ==
    /\ spc = "written"
    /\ Len(schedule) > ConcurrencyLimit
    /\ \E k \in 1..Len(schedule) : mapResults[k].status = "rejected"
    /\ \E k \in 1..Len(schedule) :
          mapResults[k].status = "fulfilled" /\ ~mapResults[k].value[1].ok
    /\ \E k \in 1..Len(schedule) : Len(ItemRows(legsOut.rows, k)) = 2

----------------------------------------------------------------------------
(* C25 *)

\* C25: for a legs.csv the scraper wrote, loadLegs and groupLegsByTrain give
\* every train's legs in travel order (the order of the file), each leg ends
\* where the next one starts, and the audit counts 0 breaks for every train.
C25_RoundTripNoBreaks ==
    Audited =>
        LET byTrain == groupLegsByTrain(legs)
        IN  /\ \A g \in 1..Len(byTrain) :
                  /\ byTrain[g].seq = RowsOf(legs, byTrain[g].train_id)
                  /\ \A i \in 1..(Len(byTrain[g].seq) - 1) :
                        byTrain[g].seq[i].to_station = byTrain[g].seq[i + 1].from_station
            /\ \A k \in 1..Len(continuityRows) : continuityRows[k].breaks = 0

----------------------------------------------------------------------------
(* C29 *)

Failed == {k \in 1..Len(requests) : requests[k] # "ok"}

\* C29: getJSON issues at most retries + 1 requests (3 with the default);
\* nothing is requested after an ok response, whose value is returned; each
\* failed attempt but the last is followed by a sleep of 750 * (attempt + 1)
\* ms and nothing else is slept; after the failure of attempt number retries
\* that attempt's error is thrown with no sleep; the timeout timer is pending
\* only while the fetch is.
C29_RetryDiscipline ==
    hpc # "idle" =>
        /\ Len(requests) <= retries + 1
        /\ retries = DefaultRetries => Len(requests) <= 3
        /\ \A k \in 1..(Len(requests) - 1) : requests[k] # "ok"
        /\ hpc = "returned" <=> (requests # <<>> /\ requests[Len(requests)] = "ok")
        /\ hpc = "returned" => answer = [kind |-> "value", of |-> Len(requests) - 1]
        /\ slept = [k \in 1..Len(slept) |-> 750 * k]
        /\ Len(slept) = Cardinality(Failed) - (IF hpc = "thrown" /\ requests # <<>> THEN 1 ELSE 0)
        /\ (hpc = "thrown" /\ retries >= 0) =>
              /\ Len(requests) = retries + 1
              /\ Failed = 1..Len(requests)
              /\ answer = [kind |-> "error", of |-> retries]
        /\ hpc \in {"returned", "thrown"} <=> answer # NoAnswer
        /\ timer => hpc = "fetch"

\* the default of two retries used up: three failed requests, one of them a
\* timeout, sleeps of 750 and 1500 ms and the third error thrown
C29_Witness ==
    /\ hpc = "thrown" /\ retries = DefaultRetries
    /\ Len(requests) = 3 /\ requests[3] = "timeout"
    /\ slept = <<750, 1500>>
    /\ answer = [kind |-> "error", of |-> 2]
    /\ ~timer

====
